---- MODULE Spec2Model ----
(***************************************************************************)
(* The multi-process task manager of RooFit::MultiProcess: one master, one *)
(* queue process and N workers that talk over per-pair FIFO pipes.         *)
(*                                                                         *)
(* A pipe is a sequence of words as the writer put them on the wire: a     *)
(* 4-byte int (every message tag), an 8-byte size_t, an 8-byte double or a *)
(* 1-byte bool.  A writer appends a whole message at once (it flushes      *)
(* after the last word); a reader takes the words its handler reads.  A    *)
(* worker reads a tag as 4 bytes at its current byte offset, so a payload  *)
(* that a handler leaves unread is read as tags by the next iterations.    *)
(***************************************************************************)
EXTENDS Integers, Sequences, FiniteSets, TLC

\* ---------------------------------------------------------------- bounds
MaxWorkers == 2
MaxJobs == 2
MaxTask == 1
MaxOps == 3

Workers == 1..MaxWorkers
JobIds == 0..(MaxJobs - 1)
Tasks == 0..MaxTask
\* the values master sends with update_real
UpdVals == {5}

\* ------------------------------------------------------- message alphabets
M2Q_terminate == 100
M2Q_enqueue == 10
M2Q_retrieve == 11
M2Q_update_real == 12
M2Q_switch_work_mode == 13
M2Q_call_double_const_method == 14
Q2M_retrieve_rejected == 20
Q2M_retrieve_accepted == 21
W2Q_dequeue == 30
W2Q_send_result == 31
Q2W_terminate == 400
Q2W_dequeue_rejected == 40
Q2W_dequeue_accepted == 41
Q2W_update_real == 42
Q2W_switch_work_mode == 43
Q2W_result_received == 44
Q2W_call_double_const_method == 45

Q2W_tags == {Q2W_terminate, Q2W_dequeue_rejected, Q2W_dequeue_accepted,
             Q2W_update_real, Q2W_switch_work_mode, Q2W_result_received,
             Q2W_call_double_const_method}

\* ------------------------------------------------------------------ words
TagW(v) == [k |-> "int", v |-> v]
SzW(v) == [k |-> "sz", v |-> v]
DblW(v) == [k |-> "dbl", v |-> v]
BoolW(b) == [k |-> "bool", v |-> IF b THEN 1 ELSE 0]
\* a std::string goes as its length (a size_t) and its characters; the method
\* keys sent here have KeyLen characters
KeyLen == 4
StrW(v) == [k |-> "str", v |-> v]
\* the n bytes that a read across a word boundary left of a word
RawW(n) == [k |-> "raw", v |-> n]

WordSize(w) == CASE w.k = "int" -> 4
                 [] w.k = "sz" -> 8
                 [] w.k = "dbl" -> 8
                 [] w.k = "bool" -> 1
                 [] w.k = "str" -> 8 + KeyLen
                 [] w.k = "raw" -> w.v

RECURSIVE PipeBytes(_)
PipeBytes(p) == IF p = <<>> THEN 0 ELSE WordSize(Head(p)) + PipeBytes(Tail(p))

\* what is left of pipe p, whose reader stands off bytes into the head word,
\* after the reader took n more bytes: <<pipe, offset>>
RECURSIVE Advance(_, _, _)
Advance(p, off, n) ==
  IF n = 0 THEN <<p, off>>
  ELSE LET rest == WordSize(Head(p)) - off IN
       IF n < rest THEN <<p, off + n>>
       ELSE Advance(Tail(p), 0, n - rest)

\* a 4-byte read at the first byte of an int word yields the int; at the first
\* byte of a size_t it yields the low half of the size_t, which is its value
\* for the values sent here; every other 4-byte window lies in the high half
\* of a size_t below 2^32 or in the bytes of a double with a zero low word or
\* of a string, and matches no case of the switch.
NoTag == 0
ReadTag(p, off) ==
  IF off = 0 /\ Head(p).k \in {"int", "sz"} THEN Head(p).v ELSE NoTag

\* the loop iterations whose read matches no case only move the read position:
\* a run of them, as far as the bytes in the pipe allow, is taken as one step
RECURSIVE SkipNoTag(_, _)
SkipNoTag(p, off) ==
  IF PipeBytes(p) - off >= 4 /\ ReadTag(p, off) \notin Q2W_tags
    THEN LET adv == Advance(p, off, 4) IN SkipNoTag(adv[1], adv[2])
    ELSE <<p, off>>

VARIABLES
  job_objects, job_counter, instantiated, N_workers, processes_initialized,
  queue_activated, m_work_mode, queue_pipe, m_pc, m_dtor, m_results, last,
  m2q, q2m, w2q, q2w,
  q_pc, queue, N_tasks, N_tasks_completed, q_results, child_jobs, q_term,
  w_pc, work_mode, dequeue_acknowledged, w_off, w_param,
  enqLog, enqUpd, handLog, evalLog, recLog, updLog, applied, nSwitch,
  retrieved,
  q_call, calls, computed, returned,
  fork_N, procs,
  d_pc, d_x, d_lo, d_up, d_Up, fNCycles, fGrd, fG2, fGstep,
  d_in, d_used, d_calls, n2p_out, d_seed,
  g_x, g_st, g_serial, g_perm, g_parts, g_trace

mvars == <<job_objects, job_counter, instantiated, N_workers,
           processes_initialized, queue_activated, m_work_mode, queue_pipe,
           m_pc, m_dtor, m_results, last>>
pipes == <<m2q, q2m, w2q, q2w>>
qvars == <<q_pc, queue, N_tasks, N_tasks_completed, q_results, child_jobs, q_term>>
wvars == <<w_pc, work_mode, dequeue_acknowledged, w_off, w_param>>
ghost == <<enqLog, enqUpd, handLog, evalLog, recLog, updLog, applied, nSwitch,
           retrieved>>
\* the numerical derivator: the parameter (its point and limits), the error
\* level and strategy, the state (fGrd, fG2, fGstep), what its last call
\* took in, chose as steps and what Minuit2's calculator makes of the same,
\* and the locals of the last seeding
svars == <<d_pc, d_x, d_lo, d_up, d_Up, fNCycles, fGrd, fG2, fGstep,
           d_in, d_used, d_calls, n2p_out, d_seed>>
\* a derivator for two parameters: the point, the incoming state and
\* strategy, and what the serial loop, a loop in another order and the
\* parameters taken one by one make of them
\* g_trace is the course of the serial loop: the points f was called at and
\* the cycles that ran
gvars == <<g_x, g_st, g_serial, g_perm, g_parts, g_trace>>
dvars == <<svars, gvars>>
\* call_double_const_method: the worker whose double the queue process waits
\* for (0: none), the calls master made, the values the workers computed and
\* the values the calls returned on master
cvars == <<q_call, calls, computed, returned>>
\* the processes that TaskManager::initialize_processes makes of the calling
\* process, in the order of their creation, and the N_workers it was run with
fvars == <<fork_N, procs>>
vars == <<mvars, pipes, qvars, wvars, ghost, cvars, dvars, fvars>>

NoResult == -1
JobTasks == JobIds \X Tasks
EmptyResults == [jt \in JobTasks |-> NoResult]

\* the job of the tests: result[task] = x[task]^2 + b with x = (0, 1, 2, ...)
\* and b the job's one real parameter, b = 3 for the first job, 4 for the next
InitialB(j) == 3 + j
EvaluateTask(t, b) == t * t + b

\* xSquaredPlusBVectorSerial::evaluate, one element of the result
SerialEvaluate(t, b) == t * t + b

ActiveWorkers == 1..N_workers

\* the messages master has sent so far, retrieves aside
OpsSent == Len(enqLog) + Len(updLog) + nSwitch

ManagerInit ==
  /\ job_objects = {} /\ job_counter = 0 /\ instantiated = FALSE
  /\ N_workers = 0 /\ processes_initialized = FALSE /\ queue_activated = FALSE
  /\ m_work_mode = FALSE /\ queue_pipe = "null" /\ m_pc = "run" /\ m_dtor = FALSE
  /\ m_results = EmptyResults /\ last = "none"
  /\ m2q = <<>> /\ q2m = <<>>
  /\ w2q = [k \in Workers |-> <<>>] /\ q2w = [k \in Workers |-> <<>>]
  /\ q_pc = "none" /\ queue = <<>> /\ N_tasks = 0 /\ N_tasks_completed = 0
  /\ q_results = EmptyResults /\ child_jobs = {} /\ q_term = 0
  /\ w_pc = [k \in Workers |-> "none"]
  /\ work_mode = [k \in Workers |-> FALSE]
  /\ dequeue_acknowledged = [k \in Workers |-> TRUE]
  /\ w_off = [k \in Workers |-> 0]
  /\ w_param = [k \in Workers |-> [j \in JobIds |-> InitialB(j)]]
  /\ enqLog = <<>> /\ enqUpd = <<>> /\ handLog = <<>> /\ evalLog = <<>> /\ recLog = <<>>
  /\ updLog = <<>> /\ applied = [k \in Workers |-> <<>>] /\ nSwitch = 0
  /\ retrieved = 0
  /\ q_call = 0 /\ calls = <<>> /\ computed = <<>> /\ returned = <<>>

\* no derivator is constructed in the task manager's programs
NoDerivator ==
  /\ d_pc = "none" /\ d_x = 0 /\ d_lo = FALSE /\ d_up = FALSE /\ d_Up = 0
  /\ fNCycles = 0 /\ fGrd = 0 /\ fG2 = 0 /\ fGstep = 0
  /\ d_in = <<>> /\ d_used = <<>> /\ d_calls = 0 /\ n2p_out = <<>>
  /\ d_seed = <<>>

NoGradient ==
  /\ g_x = <<>> /\ g_st = <<>> /\ g_serial = <<>> /\ g_perm = <<>>
  /\ g_parts = <<>> /\ g_trace = <<>>

\* initialize_processes is followed step by step in a program of its own
NoFork == fork_N = 0 /\ procs = <<>>

Init == ManagerInit /\ NoDerivator /\ NoGradient /\ NoFork

\* ------------------------------------------------- construction and forks
\* everything initialize_processes sets, except the master-to-queue direction
\* of the queue pipe (set by the caller, which may write to it at once)
forkRestVars == <<N_workers, processes_initialized, queue_pipe, q2m, w2q, q2w,
                  q_pc, queue, N_tasks, N_tasks_completed, q_results, q_term,
                  w_pc, work_mode, dequeue_acknowledged, w_off, w_param>>

initialize_processes_rest_counters_kept(N) ==
  /\ N_workers' = N
  /\ processes_initialized' = TRUE
  /\ queue_pipe' = "open"
  /\ q2m' = <<>>
  /\ w2q' = [k \in Workers |-> <<>>]
  /\ q2w' = [k \in Workers |-> <<>>]
  /\ q_pc' = "forked"
  /\ UNCHANGED <<cvars, dvars, fvars, queue, N_tasks, N_tasks_completed>>
  /\ q_results' = EmptyResults /\ q_term' = 0
  /\ w_pc' = [k \in Workers |-> IF k <= N THEN "forked" ELSE "none"]
  /\ work_mode' = [k \in Workers |-> FALSE]
  /\ dequeue_acknowledged' = [k \in Workers |-> TRUE]
  /\ w_off' = [k \in Workers |-> 0]
  /\ w_param' = [k \in Workers |-> [j \in JobIds |-> InitialB(j)]]

\* initialize_processes: fork N workers, then the queue; every child starts
\* as a copy of master (empty FIFO, zero counters, Job::work_mode = false)
\* and runs the program on until it reaches activate() itself
initialize_processes_rest(N) ==
  /\ N_workers' = N
  /\ processes_initialized' = TRUE
  /\ queue_pipe' = "open"
  /\ q2m' = <<>>
  /\ w2q' = [k \in Workers |-> <<>>]
  /\ q2w' = [k \in Workers |-> <<>>]
  /\ q_pc' = "forked"
  /\ queue' = <<>> /\ N_tasks' = 0 /\ N_tasks_completed' = 0
  /\ q_results' = EmptyResults /\ q_term' = 0
  /\ w_pc' = [k \in Workers |-> IF k <= N THEN "forked" ELSE "none"]
  /\ work_mode' = [k \in Workers |-> FALSE]
  /\ dequeue_acknowledged' = [k \in Workers |-> TRUE]
  /\ w_off' = [k \in Workers |-> 0]
  /\ w_param' = [k \in Workers |-> [j \in JobIds |-> InitialB(j)]]

\* TaskManager::instance(N_workers)
instance(N) ==
  /\ m_pc = "run"
  /\ IF ~instantiated
       THEN /\ instantiated' = TRUE
            /\ initialize_processes_rest(N)
            /\ m2q' = <<>>
            /\ queue_activated' = FALSE
            /\ m_work_mode' = FALSE
            /\ last' = "instance_new"
            /\ UNCHANGED <<cvars, dvars, fvars, job_objects, job_counter, m_pc, m_dtor, m_results,
                           child_jobs, ghost>>
       ELSE /\ last' = "instance_same"
            /\ UNCHANGED <<cvars, dvars, fvars, job_objects, job_counter, instantiated, N_workers,
                           processes_initialized, queue_activated, m_work_mode,
                           queue_pipe, m_pc, m_dtor, m_results,
                           pipes, qvars, wvars, ghost>>

instance0_creates ==
  /\ m_pc = "run"
  /\ IF instantiated
       THEN /\ last' = "instance0_ok"
            /\ UNCHANGED <<cvars, dvars, fvars, job_objects, job_counter, instantiated, N_workers,
                           processes_initialized, queue_activated, m_work_mode,
                           queue_pipe, m_pc, m_dtor, m_results,
                           pipes, qvars, wvars, ghost>>
       ELSE /\ instantiated' = TRUE
            /\ initialize_processes_rest(1)
            /\ m2q' = <<>>
            /\ queue_activated' = FALSE
            /\ m_work_mode' = FALSE
            /\ last' = "instance0_ok"
            /\ UNCHANGED <<cvars, dvars, fvars, job_objects, job_counter, m_pc, m_dtor, m_results,
                           child_jobs, ghost>>

\* TaskManager::instance()
instance0 ==
  /\ m_pc = "run"
  /\ last' = IF instantiated THEN "instance0_ok" ELSE "instance0_runtime_error"
  /\ UNCHANGED <<cvars, dvars, fvars, job_objects, job_counter, instantiated, N_workers,
                 processes_initialized, queue_activated, m_work_mode,
                 queue_pipe, m_pc, m_dtor, m_results,
                 pipes, qvars, wvars, ghost>>

\* TaskManager::is_activated
is_activated == queue_activated

add_job_object_size_as_id ==
  /\ m_pc = "run"
  /\ IF instantiated /\ is_activated
       THEN /\ last' = "add_logic_error"
            /\ UNCHANGED <<cvars, dvars, fvars, job_objects, job_counter>>
       ELSE /\ job_counter < MaxJobs
            /\ job_counter' = job_counter + 1
            /\ job_objects' = job_objects \cup {Cardinality(job_objects)}
            /\ last' = "add_ok"
  /\ UNCHANGED <<cvars, dvars, fvars, instantiated, N_workers, processes_initialized,
                 queue_activated, m_work_mode, queue_pipe, m_pc, m_dtor,
                 m_results, pipes, qvars, wvars, ghost>>

add_job_object_unchecked ==
  /\ m_pc = "run"
  /\ job_counter < MaxJobs
  /\ job_counter' = job_counter + 1
  /\ job_objects' = job_objects \cup {job_counter}
  /\ last' = "add_ok"
  /\ UNCHANGED <<cvars, dvars, fvars, instantiated, N_workers, processes_initialized,
                 queue_activated, m_work_mode, queue_pipe, m_pc, m_dtor,
                 m_results, pipes, qvars, wvars, ghost>>

\* TaskManager::add_job_object
add_job_object ==
  /\ m_pc = "run"
  /\ IF instantiated /\ is_activated
       THEN /\ last' = "add_logic_error"
            /\ UNCHANGED <<cvars, dvars, fvars, job_objects, job_counter>>
       ELSE /\ job_counter < MaxJobs
            /\ job_counter' = job_counter + 1
            /\ job_objects' = job_objects \cup {job_counter}
            /\ last' = "add_ok"
  /\ UNCHANGED <<cvars, dvars, fvars, instantiated, N_workers, processes_initialized,
                 queue_activated, m_work_mode, queue_pipe, m_pc, m_dtor,
                 m_results, pipes, qvars, wvars, ghost>>

activate_rest_always_forks ==
  /\ queue_activated' = TRUE
  /\ child_jobs' = IF queue_activated THEN child_jobs ELSE job_objects
  /\ initialize_processes_rest(N_workers)

\* TaskManager::activate, all but the master-to-queue direction of the pipe
activate_rest ==
  /\ queue_activated' = TRUE
  /\ child_jobs' = IF queue_activated THEN child_jobs ELSE job_objects
  /\ IF processes_initialized
       THEN UNCHANGED forkRestVars
       ELSE initialize_processes_rest(N_workers)

\* TaskManager::activate called on master
activate ==
  /\ m_pc = "run" /\ instantiated
  /\ activate_rest
  /\ m2q' = IF processes_initialized THEN m2q ELSE <<>>
  /\ UNCHANGED <<cvars, dvars, fvars, job_objects, job_counter, instantiated, m_work_mode,
                 m_pc, m_dtor, m_results, last, ghost>>
\* ---------------------------------------------------------------- shutdown
\* TaskManager::shutdown_processes followed by queue_activated = false
\* (TaskManager::terminate); dtor tells that ~TaskManager is running it.
\* With the queue pipe already reset, queue_pipe->good() goes through a null
\* pointer: the process dies, or the call reads as false and is skipped.
shutdown_start(dtor) ==
  IF queue_pipe = "open"
    THEN /\ m2q' = Append(m2q, TagW(M2Q_terminate))
         /\ m_pc' = "closing"
         /\ m_dtor' = dtor
         /\ UNCHANGED <<cvars, dvars, fvars, processes_initialized, queue_activated, queue_pipe,
                        instantiated>>
    ELSE \/ /\ m_pc' = "crashed"
            /\ UNCHANGED <<cvars, dvars, fvars, m2q, m_dtor, processes_initialized, queue_activated,
                           queue_pipe, instantiated>>
         \/ /\ processes_initialized' = FALSE
            /\ queue_activated' = FALSE
            /\ instantiated' = IF dtor THEN FALSE ELSE instantiated
            /\ UNCHANGED <<cvars, dvars, fvars, m2q, m_dtor, m_pc, queue_pipe>>

\* queue_pipe->close() returned and every worker pid was waited for
shutdown_done ==
  /\ m_pc = "closing"
  /\ q_pc = "exited"
  /\ \A k \in ActiveWorkers : w_pc[k] \in {"exited", "failed"}
  /\ queue_pipe' = "null"
  /\ processes_initialized' = FALSE
  /\ queue_activated' = FALSE
  /\ instantiated' = IF m_dtor THEN FALSE ELSE instantiated
  /\ m_dtor' = FALSE
  /\ m_pc' = "run"
  /\ UNCHANGED <<cvars, dvars, fvars, job_objects, job_counter, N_workers, m_work_mode, m_results,
                 last, pipes, qvars, wvars, ghost>>

\* TaskManager::terminate called on master
terminate ==
  /\ m_pc = "run" /\ instantiated
  /\ shutdown_start(FALSE)
  /\ UNCHANGED <<cvars, dvars, fvars, job_objects, job_counter, N_workers, m_work_mode, m_results,
                 last, q2m, w2q, q2w, qvars, wvars, ghost>>

remove_job_object_keeps_instance(j) ==
  /\ m_pc = "run"
  /\ j \in job_objects
  /\ job_objects' = job_objects \ {j}
  /\ last' = "remove"
  /\ UNCHANGED <<cvars, dvars, fvars, m2q, m_pc, m_dtor, processes_initialized, queue_activated,
                 queue_pipe, instantiated>>
  /\ UNCHANGED <<cvars, dvars, fvars, job_counter, N_workers, m_work_mode, m_results,
                 q2m, w2q, q2w, qvars, wvars, ghost>>

terminate_pipe_error_propagated(sent) ==
  /\ m_pc = "run" /\ instantiated
  /\ queue_pipe = "open"
  /\ m2q' = IF sent THEN Append(m2q, TagW(M2Q_terminate)) ELSE m2q
  /\ m_pc' = "crashed"
  /\ UNCHANGED <<cvars, dvars, fvars, job_objects, job_counter, instantiated, N_workers,
                 processes_initialized, queue_activated, m_work_mode,
                 queue_pipe, m_dtor, m_results, last, q2m, w2q, q2w, qvars,
                 wvars, ghost>>

\* TaskManager::terminate when the pipe throws in shutdown_processes, at the
\* write of M2Q::terminate (sent false) or at the close after it (sent true):
\* the rest of the try block is skipped, so the pipe is not reset and
\* processes_initialized and queue_activated keep their values; the catch
\* clause prints a warning and terminate returns
terminate_pipe_error(sent) ==
  /\ m_pc = "run" /\ instantiated
  /\ queue_pipe = "open"
  /\ m2q' = IF sent THEN Append(m2q, TagW(M2Q_terminate)) ELSE m2q
  /\ last' = "terminate_warning"
  /\ UNCHANGED <<cvars, dvars, fvars, job_objects, job_counter, instantiated, N_workers,
                 processes_initialized, queue_activated, m_work_mode,
                 queue_pipe, m_pc, m_dtor, m_results, q2m, w2q, q2w, qvars,
                 wvars, ghost>>

\* TaskManager::remove_job_object; removing the last job resets _instance,
\* which runs ~TaskManager and so terminate()
remove_job_object(j) ==
  /\ m_pc = "run"
  /\ j \in job_objects
  /\ job_objects' = job_objects \ {j}
  /\ last' = "remove"
  /\ IF job_objects' = {} /\ instantiated
       THEN shutdown_start(TRUE)
       ELSE UNCHANGED <<cvars, dvars, fvars, m2q, m_pc, m_dtor, processes_initialized,
                        queue_activated, queue_pipe, instantiated>>
  /\ UNCHANGED <<cvars, dvars, fvars, job_counter, N_workers, m_work_mode, m_results,
                 q2m, w2q, q2w, qvars, wvars, ghost>>

\* a child that never reached activate() follows the program of master to
\* its end and exits there
child_exit_unactivated ==
  /\ m_pc = "closing" /\ ~queue_activated
  /\ q_pc = "forked"
  /\ q_pc' = "exited"
  /\ w_pc' = [k \in Workers |-> IF w_pc[k] = "forked" THEN "exited" ELSE w_pc[k]]
  /\ UNCHANGED <<cvars, dvars, fvars, mvars, pipes, queue, N_tasks, N_tasks_completed, q_results,
                 child_jobs, q_term, work_mode, dequeue_acknowledged, w_off,
                 w_param, ghost>>

\* ------------------------------------------------- master side of the protocol
EnqueueMsg(j, t) == <<TagW(M2Q_enqueue), SzW(j), SzW(t)>>

\* TaskManager::to_queue on master, called by job j for its task t
to_queue_master(j, t) ==
  /\ m_pc = "run" /\ instantiated
  /\ j \in job_objects
  /\ IF ~queue_activated
       THEN /\ activate_rest
            /\ m2q' = (IF processes_initialized THEN m2q ELSE <<>>) \o EnqueueMsg(j, t)
       ELSE /\ m2q' = m2q \o EnqueueMsg(j, t)
            /\ UNCHANGED <<cvars, dvars, fvars, queue_activated, child_jobs, forkRestVars>>
  /\ enqLog' = Append(enqLog, <<j, t>>)
  /\ enqUpd' = Append(enqUpd, Len(updLog))
  /\ UNCHANGED <<cvars, dvars, fvars, job_objects, job_counter, instantiated, m_work_mode, m_pc,
                 m_dtor, m_results, last, handLog, evalLog, recLog, updLog,
                 applied, nSwitch, retrieved>>

\* a write to the queue pipe on master; through a reset (null) pipe the
\* process dies
master_send(msg) ==
  IF queue_pipe = "open"
    THEN m2q' = m2q \o msg /\ m_pc' = m_pc
    ELSE m2q' = m2q /\ m_pc' = "crashed"

\* TaskManager::set_work_mode
set_work_mode(flag) ==
  /\ m_pc = "run" /\ instantiated
  /\ IF flag # m_work_mode
       THEN /\ m_work_mode' = flag
            /\ master_send(<<TagW(M2Q_switch_work_mode)>>)
            /\ nSwitch' = nSwitch + 1
       ELSE UNCHANGED <<cvars, dvars, fvars, m_work_mode, m2q, m_pc, nSwitch>>
  /\ UNCHANGED <<cvars, dvars, fvars, job_objects, job_counter, instantiated, N_workers,
                 processes_initialized, queue_activated, queue_pipe, m_dtor,
                 m_results, last, q2m, w2q, q2w, qvars, wvars,
                 enqLog, enqUpd, handLog, evalLog, recLog, updLog, applied, retrieved>>

UpdateMsg(tag, j, ix, val, c) == <<TagW(tag), SzW(j), SzW(ix), DblW(val), BoolW(c)>>

\* job j on master sends M2Q::update_real(job_id, ix, val, is_constant)
update_real_master(j, ix, val, c) ==
  /\ m_pc = "run" /\ instantiated
  /\ j \in job_objects
  /\ master_send(UpdateMsg(M2Q_update_real, j, ix, val, c))
  /\ updLog' = Append(updLog, <<j, ix, val, c>>)
  /\ UNCHANGED <<cvars, dvars, fvars, job_objects, job_counter, instantiated, N_workers,
                 processes_initialized, queue_activated, m_work_mode,
                 queue_pipe, m_dtor, m_results, last, q2m, w2q, q2w, qvars,
                 wvars, enqLog, enqUpd, handLog, evalLog, recLog, applied, nSwitch, retrieved>>
\* the method keys of the calls
Keys == {1}

CallMsg(j, k, key) ==
  <<TagW(M2Q_call_double_const_method), SzW(j), SzW(k), StrW(key)>>

\* TaskManager::call_double_const_method, up to the blocking read of the result
call_double_const_method(key, j, k) ==
  /\ m_pc = "run" /\ instantiated
  /\ j \in job_objects /\ k \in ActiveWorkers
  /\ IF queue_pipe = "open"
       THEN m2q' = m2q \o CallMsg(j, k, key) /\ m_pc' = "call"
       ELSE m2q' = m2q /\ m_pc' = "crashed"
  /\ calls' = Append(calls, <<j, k, key>>)
  /\ UNCHANGED <<dvars, fvars, job_objects, job_counter, instantiated, N_workers,
                 processes_initialized, queue_activated, m_work_mode,
                 queue_pipe, m_dtor, m_results, last, q2m, w2q, q2w, qvars,
                 wvars, ghost, q_call, computed, returned>>

\* TaskManager::call_double_const_method: "*queue_pipe >> result; return result"
call_double_const_method_return ==
  /\ m_pc = "call"
  /\ q2m # <<>>
  /\ returned' = Append(returned, Head(q2m).v)
  /\ q2m' = Tail(q2m)
  /\ m_pc' = "run"
  /\ UNCHANGED <<dvars, fvars, job_objects, job_counter, instantiated, N_workers,
                 processes_initialized, queue_activated, m_work_mode,
                 queue_pipe, m_dtor, m_results, last, m2q, w2q, q2w, qvars,
                 wvars, ghost, q_call, calls, computed>>

\* ----------------------------------------------- results on the wire
\* Job::send_back_results_from_queue_to_master: the number of stored task
\* results of job j, then each (task_id, result) in ascending task order
RECURSIVE SerTasks(_, _, _)
SerTasks(res, j, t) ==
  IF t > MaxTask THEN <<>>
  ELSE (IF res[<<j, t>>] # NoResult THEN <<SzW(t), DblW(res[<<j, t>>])>> ELSE <<>>)
       \o SerTasks(res, j, t + 1)

SerJob(res, j) ==
  LET body == SerTasks(res, j, 0) IN <<SzW(j), SzW(Len(body) \div 2)>> \o body

\* the loop over job_objects (a std::map: ascending job id)
RECURSIVE SerJobs(_, _, _)
SerJobs(res, jobs, j) ==
  IF j >= MaxJobs THEN <<>>
  ELSE (IF j \in jobs THEN SerJob(res, j) ELSE <<>>) \o SerJobs(res, jobs, j + 1)

RetrieveAcceptedMsg(res, jobs) ==
  <<TagW(Q2M_retrieve_accepted), SzW(Cardinality(jobs))>> \o SerJobs(res, jobs, 0)

\* Job::clear_results for every job of the registry
ClearResults(res, jobs) ==
  [jt \in JobTasks |-> IF jt[1] \in jobs THEN NoResult ELSE res[jt]]

\* Job::receive_results_on_master: n pairs (task_id, result) into the job's
\* results on master; yields <<rest of pipe, results>>
RECURSIVE RecvTasks(_, _, _, _)
RecvTasks(p, j, n, res) ==
  IF n = 0 THEN <<p, res>>
  ELSE RecvTasks(SubSeq(p, 3, Len(p)), j, n - 1,
                 [res EXCEPT ![<<j, p[1].v>>] = p[2].v])

\* the loop of TaskManager::retrieve over the N_jobs streamed jobs; yields
\* <<rest of pipe, results, ok>>, ok false when get_job_object finds no job:
\* the pipe then starts with the id that was looked up
RECURSIVE RecvJobs(_, _, _, _)
RecvJobs(p, n, res, regs) ==
  IF n = 0 THEN <<p, res, TRUE>>
  ELSE IF p[1].v \notin regs THEN <<p, res, FALSE>>
  ELSE LET r == RecvTasks(SubSeq(p, 3, Len(p)), p[1].v, p[2].v, res)
       IN RecvJobs(r[1], n - 1, r[2], regs)

\* TaskManager::get_job_object in the loop of retrieve: job_objects[id] on a
\* std::map enters the id it does not find, with a null pointer, and the call
\* of receive_results_on_master through that pointer ends the process
get_job_object_registry(regs, r) ==
  IF r[3] THEN regs ELSE regs \cup {r[1][1].v}

\* TaskManager::retrieve, up to the blocking read of the handshake
retrieve_send ==
  /\ m_pc = "run" /\ instantiated
  /\ IF queue_pipe = "open"
       THEN m2q' = Append(m2q, TagW(M2Q_retrieve)) /\ m_pc' = "retrieve"
       ELSE m2q' = m2q /\ m_pc' = "crashed"
  /\ UNCHANGED <<cvars, dvars, fvars, job_objects, job_counter, instantiated, N_workers,
                 processes_initialized, queue_activated, m_work_mode,
                 queue_pipe, m_dtor, m_results, last, q2m, w2q, q2w, qvars,
                 wvars, ghost>>

\* TaskManager::retrieve, from the handshake on: on retrieve_rejected it sends
\* the next M2Q::retrieve, on retrieve_accepted it reads every job's results
retrieve_recv ==
  /\ m_pc = "retrieve"
  /\ q2m # <<>>
  /\ IF Head(q2m).v = Q2M_retrieve_accepted
       THEN LET r == RecvJobs(SubSeq(q2m, 3, Len(q2m)), q2m[2].v, m_results,
                              job_objects)
            IN /\ q2m' = r[1]
               /\ m_results' = r[2]
               /\ m_pc' = IF r[3] THEN "run" ELSE "crashed"
               /\ job_objects' = get_job_object_registry(job_objects, r)
               /\ m2q' = m2q
       ELSE /\ q2m' = Tail(q2m)
            /\ m2q' = Append(m2q, TagW(M2Q_retrieve))
            /\ UNCHANGED <<cvars, dvars, fvars, m_results, m_pc, job_objects>>
  /\ UNCHANGED <<cvars, dvars, fvars, job_counter, instantiated, N_workers,
                 processes_initialized, queue_activated, m_work_mode,
                 queue_pipe, m_dtor, last, w2q, q2w, qvars, wvars, ghost>>

\* --------------------------------------------------------- queue process
\* the queue process reaches TaskManager::activate and enters queue_loop
queue_start ==
  /\ q_pc = "forked" /\ queue_activated
  /\ q_pc' = "loop"
  /\ UNCHANGED <<cvars, dvars, fvars, mvars, pipes, queue, N_tasks, N_tasks_completed, q_results,
                 child_jobs, q_term, wvars, ghost>>

QueueReads(tag) == q_pc = "loop" /\ m2q # <<>> /\ Head(m2q).v = tag

\* queue_loop leaves on M2Q::terminate; terminate_workers then sends
\* Q2W::terminate on the first worker pipe and closes it, which waits for
\* that worker
q_terminate ==
  /\ QueueReads(M2Q_terminate)
  /\ m2q' = Tail(m2q)
  /\ q_pc' = "term"
  /\ q_term' = 1
  /\ q2w' = [q2w EXCEPT ![1] = Append(@, TagW(Q2W_terminate))]
  /\ UNCHANGED <<cvars, dvars, fvars, mvars, q2m, w2q, queue, N_tasks, N_tasks_completed,
                 q_results, child_jobs, wvars, ghost>>

\* terminate_workers: the close of worker pipe q_term returned; go on with
\* the next worker pipe, or leave through std::_Exit(0)
q_close_worker ==
  /\ q_pc = "term"
  /\ w_pc[q_term] \in {"exited", "failed"}
  /\ IF q_term < N_workers
       THEN /\ q_term' = q_term + 1
            /\ q2w' = [q2w EXCEPT ![q_term + 1] = Append(@, TagW(Q2W_terminate))]
            /\ q_pc' = q_pc
       ELSE /\ q_pc' = "exited"
            /\ UNCHANGED <<cvars, dvars, fvars, q_term, q2w>>
  /\ UNCHANGED <<cvars, dvars, fvars, mvars, m2q, q2m, w2q, queue, N_tasks, N_tasks_completed,
                 q_results, child_jobs, wvars, ghost>>

to_queue_queue_front(q, job_task) == <<job_task>> \o q

\* TaskManager::to_queue on the queue process
to_queue_queue(q, job_task) == Append(q, job_task)

\* process_queue_pipe_message, case M2Q::enqueue
q_enqueue ==
  /\ QueueReads(M2Q_enqueue)
  /\ m2q' = SubSeq(m2q, 4, Len(m2q))
  /\ queue' = to_queue_queue(queue, <<m2q[2].v, m2q[3].v>>)
  /\ N_tasks' = N_tasks + 1
  /\ UNCHANGED <<cvars, dvars, fvars, mvars, q2m, w2q, q2w, q_pc, N_tasks_completed, q_results,
                 child_jobs, q_term, wvars, ghost>>

RetrieveReady_counters_unchecked(q, nt, nc) == q = <<>>

\* the test of case M2Q::retrieve
RetrieveReady(q, nt, nc) == q = <<>> /\ nc = nt

q_retrieve_counter_kept ==
  /\ QueueReads(M2Q_retrieve)
  /\ m2q' = Tail(m2q)
  /\ IF RetrieveReady(queue, N_tasks, N_tasks_completed)
       THEN /\ q2m' = q2m \o RetrieveAcceptedMsg(q_results, child_jobs)
            /\ q_results' = ClearResults(q_results, child_jobs)
            /\ N_tasks' = 0
            /\ retrieved' = Len(enqLog)
            /\ UNCHANGED N_tasks_completed
       ELSE /\ q2m' = Append(q2m, TagW(Q2M_retrieve_rejected))
            /\ UNCHANGED <<cvars, dvars, fvars, q_results, N_tasks, N_tasks_completed, retrieved>>
  /\ UNCHANGED <<cvars, dvars, fvars, mvars, w2q, q2w, q_pc, queue, child_jobs, q_term, wvars,
                 enqLog, enqUpd, handLog, evalLog, recLog, updLog, applied, nSwitch>>

\* process_queue_pipe_message, case M2Q::retrieve
q_retrieve ==
  /\ QueueReads(M2Q_retrieve)
  /\ m2q' = Tail(m2q)
  /\ IF RetrieveReady(queue, N_tasks, N_tasks_completed)
       THEN /\ q2m' = q2m \o RetrieveAcceptedMsg(q_results, child_jobs)
            /\ q_results' = ClearResults(q_results, child_jobs)
            /\ N_tasks' = 0
            /\ N_tasks_completed' = 0
            /\ retrieved' = Len(enqLog)
       ELSE /\ q2m' = Append(q2m, TagW(Q2M_retrieve_rejected))
            /\ UNCHANGED <<cvars, dvars, fvars, q_results, N_tasks, N_tasks_completed, retrieved>>
  /\ UNCHANGED <<cvars, dvars, fvars, mvars, w2q, q2w, q_pc, queue, child_jobs, q_term, wvars,
                 enqLog, enqUpd, handLog, evalLog, recLog, updLog, applied, nSwitch>>

FanOut_first_only(msg) == [k \in Workers |-> IF k = 1 THEN q2w[k] \o msg ELSE q2w[k]]

\* the loop over worker_pipes that writes msg on every worker pipe
FanOut(msg) == [k \in Workers |-> IF k \in ActiveWorkers THEN q2w[k] \o msg ELSE q2w[k]]

\* process_queue_pipe_message, case M2Q::update_real
q_update_real ==
  /\ QueueReads(M2Q_update_real)
  /\ m2q' = SubSeq(m2q, 6, Len(m2q))
  /\ q2w' = FanOut(UpdateMsg(Q2W_update_real, m2q[2].v, m2q[3].v, m2q[4].v,
                             m2q[5].v = 1))
  /\ UNCHANGED <<cvars, dvars, fvars, mvars, q2m, w2q, qvars, wvars, ghost>>

\* process_queue_pipe_message, case M2Q::switch_work_mode
q_switch_work_mode ==
  /\ QueueReads(M2Q_switch_work_mode)
  /\ m2q' = Tail(m2q)
  /\ q2w' = FanOut(<<TagW(Q2W_switch_work_mode)>>)
  /\ UNCHANGED <<cvars, dvars, fvars, mvars, q2m, w2q, qvars, wvars, ghost>>
\* what is left of pipe p after its reader, at the head of p, took n bytes;
\* the bytes left of a word that was read in part stay as a raw word
TakeBytes(p, n) ==
  LET a == Advance(p, 0, n)
  IN IF a[2] = 0 THEN a[1]
     ELSE <<RawW(WordSize(Head(a[1])) - a[2])>> \o Tail(a[1])

\* the double that 8 bytes make which are not the 8 bytes of one double
Garbled == -2

\* "pipe >> result" for a double: the next 8 bytes, whatever was written there
ReadDouble(p) == IF Head(p).k = "dbl" THEN Head(p).v ELSE Garbled

\* the write of the forwarded call on the pipe of worker k
CallForward(k, msg) == [q2w EXCEPT ![k] = @ \o msg]

\* process_queue_pipe_message, case M2Q::call_double_const_method, up to the
\* blocking read "*worker_pipes[worker_id_call] >> result"
q_call_double_const_method ==
  /\ QueueReads(M2Q_call_double_const_method)
  /\ m2q' = SubSeq(m2q, 5, Len(m2q))
  /\ q2w' = CallForward(m2q[3].v, <<TagW(Q2W_call_double_const_method),
                                    SzW(m2q[2].v), StrW(m2q[4].v)>>)
  /\ q_pc' = "call"
  /\ q_call' = m2q[3].v
  /\ UNCHANGED <<dvars, fvars, mvars, q2m, w2q, queue, N_tasks, N_tasks_completed,
                 q_results, child_jobs, q_term, wvars, ghost, calls, computed,
                 returned>>

\* process_queue_pipe_message, case M2Q::call_double_const_method: 8 bytes
\* are there on the worker pipe; they are read as the result and relayed
q_call_result ==
  /\ q_pc = "call"
  /\ PipeBytes(w2q[q_call]) >= 8
  /\ q2m' = Append(q2m, DblW(ReadDouble(w2q[q_call])))
  /\ w2q' = [w2q EXCEPT ![q_call] = TakeBytes(@, 8)]
  /\ q_pc' = "loop"
  /\ q_call' = 0
  /\ UNCHANGED <<dvars, fvars, mvars, m2q, q2w, queue, N_tasks, N_tasks_completed,
                 q_results, child_jobs, q_term, wvars, ghost, calls, computed,
                 returned>>

\* TaskManager::from_queue: <<found, job_task, rest of the FIFO>>
from_queue(q) ==
  IF q = <<>> THEN <<FALSE, <<0, 0>>, q>> ELSE <<TRUE, Head(q), Tail(q)>>

DequeueAnswer_ids_swapped(found, job_task) ==
  IF found
    THEN <<TagW(Q2W_dequeue_accepted), SzW(job_task[2]), SzW(job_task[1])>>
    ELSE <<TagW(Q2W_dequeue_rejected)>>

\* the answer process_worker_pipe_message writes for W2Q::dequeue
DequeueAnswer(found, job_task) ==
  IF found
    THEN <<TagW(Q2W_dequeue_accepted), SzW(job_task[1]), SzW(job_task[2])>>
    ELSE <<TagW(Q2W_dequeue_rejected)>>

WorkerSends(k, tag) == q_pc = "loop" /\ w2q[k] # <<>> /\ Head(w2q[k]).v = tag

\* process_worker_pipe_message, case W2Q::dequeue
q_dequeue(k) ==
  /\ WorkerSends(k, W2Q_dequeue)
  /\ w2q' = [w2q EXCEPT ![k] = Tail(@)]
  /\ LET r == from_queue(queue)
     IN /\ queue' = r[3]
        /\ q2w' = [q2w EXCEPT ![k] = @ \o DequeueAnswer(r[1], r[2])]
        /\ handLog' = IF r[1] THEN Append(handLog, <<k, r[2][1], r[2][2]>>) ELSE handLog
  /\ UNCHANGED <<cvars, dvars, fvars, mvars, m2q, q2m, q_pc, N_tasks, N_tasks_completed, q_results,
                 child_jobs, q_term, wvars, enqLog, enqUpd, evalLog, recLog, updLog,
                 applied, nSwitch, retrieved>>

\* Job::receive_task_result_on_queue: the result goes into the slot of the task
receive_task_result_on_queue(res, j, t, val) == [res EXCEPT ![<<j, t>>] = val]

q_send_result_uncounted(k) ==
  /\ WorkerSends(k, W2Q_send_result)
  /\ w2q' = [w2q EXCEPT ![k] = SubSeq(@, 5, Len(@))]
  /\ q_results' = receive_task_result_on_queue(q_results, w2q[k][2].v,
                                               w2q[k][3].v, w2q[k][4].v)
  /\ q2w' = [q2w EXCEPT ![k] = Append(@, TagW(Q2W_result_received))]
  /\ recLog' = Append(recLog, <<k, w2q[k][2].v, w2q[k][3].v>>)
  /\ UNCHANGED <<cvars, dvars, fvars, mvars, m2q, q2m, q_pc, queue, N_tasks, N_tasks_completed,
                 child_jobs, q_term, wvars, enqLog, enqUpd, handLog, evalLog, updLog,
                 applied, nSwitch, retrieved>>

\* process_worker_pipe_message, case W2Q::send_result
q_send_result(k) ==
  /\ WorkerSends(k, W2Q_send_result)
  /\ w2q' = [w2q EXCEPT ![k] = SubSeq(@, 5, Len(@))]
  /\ q_results' = receive_task_result_on_queue(q_results, w2q[k][2].v,
                                               w2q[k][3].v, w2q[k][4].v)
  /\ q2w' = [q2w EXCEPT ![k] = Append(@, TagW(Q2W_result_received))]
  /\ N_tasks_completed' = N_tasks_completed + 1
  /\ recLog' = Append(recLog, <<k, w2q[k][2].v, w2q[k][3].v>>)
  /\ UNCHANGED <<cvars, dvars, fvars, mvars, m2q, q2m, q_pc, queue, N_tasks, child_jobs, q_term,
                 wvars, enqLog, enqUpd, handLog, evalLog, updLog, applied, nSwitch, retrieved>>

\* queue_loop reads 4 bytes of worker pipe k as a W2Q message that is none:
\* process_worker_pipe_message has no case for it
q_worker_unknown(k) ==
  /\ q_pc = "loop"
  /\ w2q[k] # <<>> /\ Head(w2q[k]).k # "int"
  /\ PipeBytes(w2q[k]) >= 4
  /\ w2q' = [w2q EXCEPT ![k] = TakeBytes(@, 4)]
  /\ UNCHANGED <<dvars, fvars, mvars, m2q, q2m, q2w, qvars, wvars, ghost, cvars>>

\* --------------------------------------------------------------- workers
\* a worker reaches Job::get_manager and enters Job::worker_loop
worker_start(k) ==
  /\ w_pc[k] = "forked" /\ queue_activated
  /\ w_pc' = [w_pc EXCEPT ![k] = "loop"]
  /\ UNCHANGED <<cvars, dvars, fvars, mvars, pipes, qvars, work_mode, dequeue_acknowledged, w_off,
                 w_param, ghost>>

\* worker_loop in work-mode: ask for a task, unless a dequeue is outstanding
worker_send_dequeue(k) ==
  /\ w_pc[k] = "loop"
  /\ work_mode[k] /\ dequeue_acknowledged[k]
  /\ w2q' = [w2q EXCEPT ![k] = Append(@, TagW(W2Q_dequeue))]
  /\ dequeue_acknowledged' = [dequeue_acknowledged EXCEPT ![k] = FALSE]
  /\ UNCHANGED <<cvars, dvars, fvars, mvars, m2q, q2m, q2w, qvars, w_pc, work_mode, w_off, w_param,
                 ghost>>

\* the worker stands at "pipe >> message_q2w" and 4 bytes are there
WorkerCanRead(k) == PipeBytes(q2w[k]) - w_off[k] >= 4

SendResultMsg_ids_swapped(j, t, val) ==
  <<TagW(W2Q_send_result), SzW(t), SzW(j), DblW(val)>>

\* Job::send_back_task_result_from_worker
SendResultMsg(j, t, val) == <<TagW(W2Q_send_result), SzW(j), SzW(t), DblW(val)>>

\* worker_loop, the switch of work-mode
worker_read_work(k) ==
  /\ w_pc[k] = "loop"
  /\ work_mode[k] /\ ~dequeue_acknowledged[k]
  /\ WorkerCanRead(k)
  /\ LET p == q2w[k]
         tag == ReadTag(p, w_off[k])
         adv == Advance(p, w_off[k], 4)
     IN CASE tag = Q2W_terminate ->
               /\ w_pc' = [w_pc EXCEPT ![k] = "exited"]
               /\ q2w' = [q2w EXCEPT ![k] = adv[1]]
               /\ w_off' = [w_off EXCEPT ![k] = adv[2]]
               /\ UNCHANGED <<cvars, dvars, fvars, w2q, work_mode, dequeue_acknowledged, evalLog>>
          [] tag = Q2W_dequeue_rejected ->
               /\ dequeue_acknowledged' = [dequeue_acknowledged EXCEPT ![k] = TRUE]
               /\ q2w' = [q2w EXCEPT ![k] = adv[1]]
               /\ w_off' = [w_off EXCEPT ![k] = adv[2]]
               /\ UNCHANGED <<cvars, dvars, fvars, w2q, w_pc, work_mode, evalLog>>
          [] tag = Q2W_dequeue_accepted ->
               /\ dequeue_acknowledged' = [dequeue_acknowledged EXCEPT ![k] = TRUE]
               /\ q2w' = [q2w EXCEPT ![k] = SubSeq(p, 4, Len(p))]
               /\ w2q' = [w2q EXCEPT ![k] = @ \o
                            SendResultMsg(p[2].v, p[3].v,
                                          EvaluateTask(p[3].v, w_param[k][p[2].v]))]
               /\ evalLog' = Append(evalLog, <<k, p[2].v, p[3].v>>)
               /\ w_pc' = [w_pc EXCEPT ![k] = "ack"]
               /\ UNCHANGED <<cvars, dvars, fvars, work_mode, w_off>>
          [] tag = Q2W_switch_work_mode ->
               /\ work_mode' = [work_mode EXCEPT ![k] = FALSE]
               /\ q2w' = [q2w EXCEPT ![k] = adv[1]]
               /\ w_off' = [w_off EXCEPT ![k] = adv[2]]
               /\ UNCHANGED <<cvars, dvars, fvars, w2q, w_pc, dequeue_acknowledged, evalLog>>
          [] OTHER ->
               /\ q2w' = [q2w EXCEPT ![k] = SkipNoTag(adv[1], adv[2])[1]]
               /\ w_off' = [w_off EXCEPT ![k] = SkipNoTag(adv[1], adv[2])[2]]
               /\ UNCHANGED <<cvars, dvars, fvars, w2q, w_pc, work_mode, dequeue_acknowledged, evalLog>>
  /\ UNCHANGED <<cvars, dvars, fvars, mvars, m2q, q2m, qvars, w_param, enqLog, enqUpd, handLog, recLog,
                 updLog, applied, nSwitch, retrieved>>

\* worker_loop: the handshake read after send_result
worker_ack(k) ==
  /\ w_pc[k] = "ack"
  /\ WorkerCanRead(k)
  /\ LET adv == Advance(q2w[k], w_off[k], 4)
     IN /\ q2w' = [q2w EXCEPT ![k] = adv[1]]
        /\ w_off' = [w_off EXCEPT ![k] = adv[2]]
  /\ w_pc' = [w_pc EXCEPT ![k] =
                IF ReadTag(q2w[k], w_off[k]) = Q2W_result_received
                  THEN "loop" ELSE "failed"]
  /\ UNCHANGED <<cvars, dvars, fvars, mvars, m2q, q2m, w2q, qvars, work_mode, dequeue_acknowledged,
                 w_param, ghost>>

\* Job::update_real of the test job: its one real parameter b takes the value
update_real_job(params, j, ix, val) ==
  IF ix = 0 THEN [params EXCEPT ![j] = val] ELSE params

\* worker_loop, the switch of idle-mode
worker_read_idle(k) ==
  /\ w_pc[k] = "loop"
  /\ ~work_mode[k]
  /\ WorkerCanRead(k)
  /\ ReadTag(q2w[k], w_off[k]) # Q2W_call_double_const_method
  /\ LET p == q2w[k]
         tag == ReadTag(p, w_off[k])
         adv == Advance(p, w_off[k], 4)
     IN CASE tag = Q2W_terminate ->
               /\ w_pc' = [w_pc EXCEPT ![k] = "exited"]
               /\ q2w' = [q2w EXCEPT ![k] = adv[1]]
               /\ w_off' = [w_off EXCEPT ![k] = adv[2]]
               /\ UNCHANGED <<cvars, dvars, fvars, work_mode, dequeue_acknowledged, w_param, applied>>
          [] tag = Q2W_update_real ->
               /\ q2w' = [q2w EXCEPT ![k] = SubSeq(p, 6, Len(p))]
               /\ w_param' = [w_param EXCEPT ![k] =
                                update_real_job(@, p[2].v, p[3].v, p[4].v)]
               /\ applied' = [applied EXCEPT ![k] =
                                Append(@, <<p[2].v, p[3].v, p[4].v, p[5].v = 1>>)]
               /\ UNCHANGED <<cvars, dvars, fvars, w_pc, work_mode, dequeue_acknowledged, w_off>>
          [] tag = Q2W_switch_work_mode ->
               /\ work_mode' = [work_mode EXCEPT ![k] = TRUE]
               /\ q2w' = [q2w EXCEPT ![k] = adv[1]]
               /\ w_off' = [w_off EXCEPT ![k] = adv[2]]
               /\ UNCHANGED <<cvars, dvars, fvars, w_pc, dequeue_acknowledged, w_param, applied>>
          [] tag \in {Q2W_dequeue_accepted, Q2W_dequeue_rejected} ->
               /\ dequeue_acknowledged' = [dequeue_acknowledged EXCEPT ![k] = TRUE]
               /\ q2w' = [q2w EXCEPT ![k] = SkipNoTag(adv[1], adv[2])[1]]
               /\ w_off' = [w_off EXCEPT ![k] = SkipNoTag(adv[1], adv[2])[2]]
               /\ UNCHANGED <<cvars, dvars, fvars, w_pc, work_mode, w_param, applied>>
          [] OTHER ->
               /\ q2w' = [q2w EXCEPT ![k] = SkipNoTag(adv[1], adv[2])[1]]
               /\ w_off' = [w_off EXCEPT ![k] = SkipNoTag(adv[1], adv[2])[2]]
               /\ UNCHANGED <<cvars, dvars, fvars, w_pc, work_mode, dequeue_acknowledged, w_param, applied>>
  /\ UNCHANGED <<cvars, dvars, fvars, mvars, m2q, q2m, w2q, qvars, enqLog, enqUpd, handLog, evalLog, recLog,
                 updLog, nSwitch, retrieved>>

\* the jobs that override Job::call_double_const_method; the method of the
\* base class throws std::logic_error
JobImplements(j) == j = 0

\* the overriding method: it returns the job's real parameter
CallValue(params, j, key) == params[j]

\* "pipe << result << BidirMMapPipe::flush"
CallAnswer(val) == <<DblW(val)>>

\* worker_loop in idle-mode, case Q2W::call_double_const_method
worker_call_double_const_method(k) ==
  /\ w_pc[k] = "loop"
  /\ ~work_mode[k]
  /\ WorkerCanRead(k)
  /\ ReadTag(q2w[k], w_off[k]) = Q2W_call_double_const_method
  /\ q2w' = [q2w EXCEPT ![k] = SubSeq(@, 4, Len(@))]
  /\ LET j == q2w[k][2].v
         val == CallValue(w_param[k], j, q2w[k][3].v)
     IN IF JobImplements(j)
          THEN /\ w2q' = [w2q EXCEPT ![k] = @ \o CallAnswer(val)]
               /\ computed' = Append(computed, <<k, j, val>>)
               /\ w_pc' = w_pc
          ELSE /\ w_pc' = [w_pc EXCEPT ![k] = "failed"]
               /\ UNCHANGED <<w2q, computed>>
  /\ UNCHANGED <<dvars, fvars, mvars, m2q, q2m, qvars, work_mode, dequeue_acknowledged,
                 w_off, w_param, ghost, q_call, calls, returned>>

\* a worker process ends (a signal, or an exception out of evaluate_task)
\* while the dequeue_accepted of a task is what it reads next
worker_dies(k) ==
  /\ w_pc[k] = "loop" /\ work_mode[k]
  /\ WorkerCanRead(k)
  /\ ReadTag(q2w[k], w_off[k]) = Q2W_dequeue_accepted
  /\ w_pc' = [w_pc EXCEPT ![k] = "failed"]
  /\ UNCHANGED <<cvars, dvars, fvars, mvars, pipes, qvars, work_mode, dequeue_acknowledged,
                 w_off, w_param, ghost>>

\* ------------------------------------------- initialize_processes, by fork
\* A process of the tree that initialize_processes makes: where it stands,
\* its loop index ix, whether child_pid is zero, its worker_id and role flags,
\* what each entry of worker_pipes_raw is to it ("null", the "parent" end or
\* the "child" end), its end of queue_pipe, the worker pipes it took into
\* worker_pipes, the index of this_worker_pipe (-1: not set) and the process
\* that forked it (0: the caller).  fork() returns 0 in the child and the
\* child's pid, which is not 0, in the parent.
NoPipe == -1
WorkerIx == 0..(MaxWorkers - 1)

FirstProcess ==
  [pc |-> "fork_workers", ix |-> 0, child_pid |-> 0, worker_id |-> 0,
   is_master |-> FALSE, is_queue |-> FALSE,
   raw |-> [x \in WorkerIx |-> "null"], queue_pipe |-> "null",
   worker_pipes |-> {}, this_worker_pipe |-> NoPipe, parent |-> 0]

\* the process table after process i went on as par and forked chi
Forked(i, par, chi) == Append([procs EXCEPT ![i] = par], [chi EXCEPT !.parent = i])

\* the process the scheduler runs: the oldest one that has not left
\* initialize_processes (the processes share nothing after fork, so the
\* order of their steps does not change what each of them becomes)
Running(i) ==
  /\ i \in 1..Len(procs)
  /\ procs[i].pc \notin {"done", "crashed"}
  /\ \A i2 \in 1..(i - 1) : procs[i2].pc \in {"done", "crashed"}

\* "if (child_pid)" in the loop that forks the workers: taken where fork
\* returned a pid that is not 0
is_worker_loop_breaks(pid) == pid # 0

\* the loop "for ix < N_workers: child_pid = fork(); if (child_pid) {
\* worker_id = ix; break; } else worker_pids[ix] = child_pid"
fork_worker(i) ==
  /\ Running(i) /\ procs[i].pc = "fork_workers"
  /\ LET p == procs[i]
         after(q, pid) ==
           IF is_worker_loop_breaks(pid)
             THEN [q EXCEPT !.child_pid = pid, !.worker_id = q.ix,
                            !.pc = "fork_queue"]
             ELSE [q EXCEPT !.child_pid = pid, !.ix = q.ix + 1,
                            !.pc = IF q.ix + 1 < fork_N THEN "fork_workers"
                                   ELSE "fork_queue"]
     IN procs' = Forked(i, after(p, 1), after(p, 0))
  /\ UNCHANGED <<mvars, pipes, qvars, wvars, ghost, cvars, dvars, fork_N>>

\* "if (!child_pid) { child_pid = fork(); if (child_pid) _is_queue = true;
\* else _is_master = true; }"
fork_queue(i) ==
  /\ Running(i) /\ procs[i].pc = "fork_queue"
  /\ LET p == procs[i]
     IN IF p.child_pid = 0
          THEN procs' = Forked(i,
                 [p EXCEPT !.child_pid = 1, !.is_queue = TRUE, !.pc = "connect"],
                 [p EXCEPT !.child_pid = 0, !.is_master = TRUE, !.pc = "connect"])
          ELSE procs' = [procs EXCEPT ![i].pc = "connect"]
  /\ UNCHANGED <<mvars, pipes, qvars, wvars, ghost, cvars, dvars, fork_N>>

\* the connections per role; a process that is neither master nor queue nor
\* worker throws
create_connections(i) ==
  /\ Running(i) /\ procs[i].pc = "connect"
  /\ LET p == procs[i]
         is_worker == ~(p.is_master \/ p.is_queue)
     IN procs' = [procs EXCEPT ![i] =
                    IF p.is_master \/ p.is_queue \/ is_worker
                      THEN [p EXCEPT !.pc = "pipes", !.ix = 0]
                      ELSE [p EXCEPT !.pc = "crashed"]]
  /\ UNCHANGED <<mvars, pipes, qvars, wvars, ghost, cvars, dvars, fork_N>>

\* the loop "for ix < N_workers: worker_id = ix; worker_pipes_raw[ix] = new
\* BidirMMapPipe (which forks); if isChild() { this_worker_pipe.reset(...);
\* break; }"
fork_worker_pipe(i) ==
  /\ Running(i) /\ procs[i].pc = "pipes"
  /\ LET p == [procs[i] EXCEPT !.worker_id = procs[i].ix]
     IN procs' = Forked(i,
          [p EXCEPT !.raw[p.ix] = "parent", !.ix = p.ix + 1,
                    !.pc = IF p.ix + 1 < fork_N THEN "pipes" ELSE "queue_pipe"],
          [p EXCEPT !.raw[p.ix] = "child", !.this_worker_pipe = p.ix,
                    !.pc = "queue_pipe"])
  /\ UNCHANGED <<mvars, pipes, qvars, wvars, ghost, cvars, dvars, fork_N>>

\* what "worker_pipes_raw[N_workers - 1]->isParent()" can come to: the
\* answer of the pipe, or, through a null pointer (a worker that left the
\* loop before the last entry was set), anything including the end of the
\* process
IsParentOutcomes(p) ==
  IF p.raw[fork_N - 1] = "null" THEN {"crash", "no", "yes"}
  ELSE IF p.raw[fork_N - 1] = "parent" THEN {"yes"} ELSE {"no"}

\* "if (worker_pipes_raw[N_workers - 1]->isParent()) { queue_pipe = new
\* BidirMMapPipe (which forks); parent: _is_master = true; child: _is_queue =
\* true and worker_pipes takes every worker_pipes_raw[ix] }", then
\* processes_initialized = true
fork_queue_pipe(i, outcome) ==
  /\ Running(i) /\ procs[i].pc = "queue_pipe"
  /\ outcome \in IsParentOutcomes(procs[i])
  /\ LET p == procs[i]
     IN CASE outcome = "crash" -> procs' = [procs EXCEPT ![i].pc = "crashed"]
          [] outcome = "no" -> procs' = [procs EXCEPT ![i].pc = "done"]
          [] outcome = "yes" ->
               procs' = Forked(i,
                 [p EXCEPT !.queue_pipe = "parent", !.is_master = TRUE,
                           !.pc = "done"],
                 [p EXCEPT !.queue_pipe = "child", !.is_queue = TRUE,
                           !.worker_pipes = 0..(fork_N - 1), !.pc = "done"])
  /\ UNCHANGED <<mvars, pipes, qvars, wvars, ghost, cvars, dvars, fork_N>>

\* --------------------------------------------------- numerical derivator
\* A double is a fixed-point number counted in units of vrysml = 8*eps*eps,
\* the smallest step the code ever takes.  Machine epsilon is taken as 1/64,
\* so that eps (8 units), eps2 = sqrt(eps) = 1/8 (64 units), 1/2 (256 units)
\* and 1 (512 units) are whole numbers of units; products and quotients are
\* cut towards zero.
EpsInv == 64
One == (EpsInv * EpsInv) \div 8
Half == One \div 2

Abs(a) == IF a < 0 THEN -a ELSE a
\* std::max(a, b)
Max(a, b) == IF a < b THEN b ELSE a
Trunc(n, d) == IF n < 0 THEN -((-n) \div d) ELSE n \div d
Mul(a, b) == Trunc(a * b, One)
\* a / b for b # 0
FDiv(a, b) == IF b < 0 THEN Trunc(-(a * One), -b) ELSE Trunc(a * One, b)
\* 0.1 * a
Tenth(a) == Trunc(a, 10)

RECURSIVE Bisect(_, _, _)
Bisect(n, lo, hi) ==
  IF hi - lo <= 1 THEN lo
  ELSE LET mid == (lo + hi) \div 2 IN
       IF mid * mid <= n THEN Bisect(n, mid, hi) ELSE Bisect(n, lo, mid)
\* std::sqrt of a fixed-point number a >= 0
Sqrt(a) == Bisect(a * One, 0, 64 * One)

eps == One \div EpsInv
eps2 == Sqrt(eps)
vrysml == Mul(8 * eps, eps)

\* the strategy the derivator is constructed with
fStepTolerance == Half
fGradTolerance == Tenth(One)

\* the function to differentiate: the scalar square
F(x) == Mul(x, x)

\* Trafo().Parameter(exOfIn).HasLimits()
HasLimits == d_lo \/ d_up

\* what a call computes once before its loops
Precomputed(x, grd, Up, ncycle) ==
  LET fVal == F(x) IN
  [x |-> x, fVal |-> fVal,
   dfmin |-> Mul(8 * eps2, Abs(fVal) + Up),
   epspri |-> eps2 + Abs(Mul(grd, eps2)),
   ncycle |-> ncycle]

\* the lower clamp of a step at point x
stpmin(x) == Max(vrysml, 8 * Abs(Mul(eps2, x)))

DifferentiateStep_stpmin_vrysml(c, g2, gstep) ==
  LET optstp == Sqrt(FDiv(c.dfmin, Abs(g2) + c.epspri))
      step0 == Max(optstp, Abs(Tenth(gstep)))
      stpmax == 10 * Abs(gstep)
      step1 == IF step0 > stpmax THEN stpmax ELSE step0
  IN IF step1 < vrysml THEN vrysml ELSE step1

DifferentiateStep_no_stpmax(c, g2, gstep) ==
  LET optstp == Sqrt(FDiv(c.dfmin, Abs(g2) + c.epspri))
      step0 == Max(optstp, Abs(Tenth(gstep)))
  IN IF step0 < stpmin(c.x) THEN stpmin(c.x) ELSE step0

\* the step a cycle of Differentiate chooses: no clamp for limits here
DifferentiateStep(c, g2, gstep) ==
  LET optstp == Sqrt(FDiv(c.dfmin, Abs(g2) + c.epspri))
      step0 == Max(optstp, Abs(Tenth(gstep)))
      stpmax == 10 * Abs(gstep)
      step1 == IF step0 > stpmax THEN stpmax ELSE step0
  IN IF step1 < stpmin(c.x) THEN stpmin(c.x) ELSE step1

\* the step a cycle of Numerical2PGradientCalculator chooses
Numerical2PStep(c, g2, gstep, limits) ==
  LET optstp == Sqrt(FDiv(c.dfmin, Abs(g2) + c.epspri))
      step0 == Max(optstp, Abs(Tenth(gstep)))
      step0l == IF limits /\ step0 > Half THEN Half ELSE step0
      stpmax == 10 * Abs(gstep)
      step1 == IF step0l > stpmax THEN stpmax ELSE step0l
  IN IF step1 < stpmin(c.x) THEN stpmin(c.x) ELSE step1

\* the rest of a cycle, the same code in both: the two function calls and the
\* new grd, g2, gstep; u records the step, the gstep before it and that it
\* was stored
CycleBody(c, s, step) ==
  LET fs1 == F(c.x + step)
      fs2 == F(c.x - step)
  IN [grd |-> FDiv(Mul(Half, fs1 - fs2), step),
      g2 |-> FDiv(FDiv(fs1 + fs2 - 2 * c.fVal, step), step),
      gstep |-> step,
      step_old |-> step,
      used |-> Append(s.used, [step |-> step, prev |-> s.gstep, stored |-> TRUE])]

\* fabs((step - step_old)/step) < step_tolerance
StepConvergedTol(step_old, step, tol) == Abs(FDiv(step - step_old, step)) < tol

StepConverged(s, step) == StepConvergedTol(s.step_old, step, fStepTolerance)

\* fabs(grd_old - grd)/(fabs(grd) + dfmin/step) < grad_tolerance; a zero
\* denominator gives inf or nan, which is not below the tolerance
GradConverged(c, grd_old, grd, step) ==
  LET den == Abs(grd) + FDiv(c.dfmin, step) IN
  den > 0 /\ FDiv(Abs(grd_old - grd), den) < fGradTolerance

\* the cycle loop of Differentiate for one parameter, from cycle j on
RECURSIVE DifferentiateCycles(_, _, _)
DifferentiateCycles(c, s, j) ==
  IF j >= c.ncycle THEN s
  ELSE LET step == DifferentiateStep(c, s.g2, s.gstep) IN
       IF StepConverged(s, step)
         THEN [s EXCEPT !.used = Append(@, [step |-> step, prev |-> s.gstep,
                                            stored |-> FALSE])]
         ELSE LET s1 == CycleBody(c, s, step) IN
              IF GradConverged(c, s.grd, s1.grd, step) THEN s1
              ELSE DifferentiateCycles(c, s1, j + 1)

\* the cycle loop of Numerical2PGradientCalculator::operator()
RECURSIVE Numerical2PCycles(_, _, _, _)
Numerical2PCycles(c, s, j, limits) ==
  IF j >= c.ncycle THEN s
  ELSE LET step == Numerical2PStep(c, s.g2, s.gstep, limits) IN
       IF StepConverged(s, step)
         THEN [s EXCEPT !.used = Append(@, [step |-> step, prev |-> s.gstep,
                                            stored |-> FALSE])]
         ELSE LET s1 == CycleBody(c, s, step) IN
              IF GradConverged(c, s.grd, s1.grd, step) THEN s1
              ELSE Numerical2PCycles(c, s1, j + 1, limits)

LoopStart(grd, g2, gstep) ==
  [grd |-> grd, g2 |-> g2, gstep |-> gstep, step_old |-> 0, used |-> <<>>]

\* NumericalDerivatorMinuit2::Differentiate at the point d_x
Differentiate ==
  /\ d_pc \in {"ready", "seeded"}
  /\ LET c == Precomputed(d_x, fGrd, d_Up, fNCycles)
         r == DifferentiateCycles(c, LoopStart(fGrd, fG2, fGstep), 0)
     IN /\ fGrd' = r.grd /\ fG2' = r.g2 /\ fGstep' = r.gstep
        /\ d_used' = r.used
  /\ d_in' = <<fGrd, fG2, fGstep>>
  /\ d_calls' = d_calls + 1
  /\ n2p_out' = <<>>
  /\ UNCHANGED <<d_pc, d_x, d_lo, d_up, d_Up, fNCycles, d_seed>>
  /\ UNCHANGED <<mvars, pipes, qvars, wvars, ghost, cvars, fvars, gvars>>

\* Numerical2PGradientCalculator::operator()(par, Gradient) for the point and
\* the gradient the last call of Differentiate took in
Numerical2PGradientCalculator ==
  /\ d_pc \in {"ready", "seeded"} /\ d_in # <<>> /\ n2p_out = <<>>
  /\ LET c == Precomputed(d_x, d_in[1], d_Up, fNCycles)
         r == Numerical2PCycles(c, LoopStart(d_in[1], d_in[2], d_in[3]), 0,
                                HasLimits)
     IN n2p_out' = <<r.grd, r.g2, r.gstep>>
  /\ UNCHANGED <<d_pc, d_x, d_lo, d_up, d_Up, fNCycles, fGrd, fG2, fGstep,
                 d_in, d_used, d_calls, d_seed>>
  /\ UNCHANGED <<mvars, pipes, qvars, wvars, ghost, cvars, fvars, gvars>>

\* gsmin = 8.*Eps2()*(fabs(var) + Eps2())
SetInitialGradient_gsmin(var) == Mul(8 * eps2, Abs(var) + eps2)

SetInitialGradient_dirin_eps2(vplu, vmin, gsmin) ==
  Max(Mul(Half, Abs(vplu) + Abs(vmin)), eps2)

\* dirin = std::max(0.5*(fabs(vplu) + fabs(vmin)), gsmin)
SetInitialGradient_dirin(vplu, vmin, gsmin) ==
  Max(Mul(Half, Abs(vplu) + Abs(vmin)), gsmin)

SetInitialGradient_gstep_unclamped(gsmin, dirin) ==
  Max(gsmin, Tenth(dirin))

\* the gstep SetInitialGradient stores
SetInitialGradient_gstep(gsmin, dirin) ==
  LET gstep == Max(gsmin, Tenth(dirin)) IN
  IF HasLimits /\ gstep > Half THEN Half ELSE gstep

\* SetInitialGradient for the one parameter.  Without limits Int2ext and
\* Ext2int are the identity; with limits the sine and square-root transforms
\* are not computed here: Ext2int of the clipped value may be any value
\* (var2p for sav + werr, var2m for sav - werr).
SetInitialGradient(werr, var2p, var2m) ==
  /\ d_pc \in {"ready", "seeded"} /\ d_calls = 0
  /\ LET var == d_x
         vplu == IF HasLimits THEN var2p - var ELSE (var + werr) - var
         vmin == IF HasLimits THEN var2m - var ELSE (var - werr) - var
         gsmin == SetInitialGradient_gsmin(var)
         dirin == SetInitialGradient_dirin(vplu, vmin, gsmin)
         g2 == FDiv(2 * d_Up, Mul(dirin, dirin))
     IN /\ fGrd' = Mul(g2, dirin)
        /\ fG2' = g2
        /\ fGstep' = SetInitialGradient_gstep(gsmin, dirin)
        /\ d_seed' = [vplu |-> vplu, vmin |-> vmin, gsmin |-> gsmin,
                      dirin |-> dirin,
                      gstep |-> Max(gsmin, Tenth(dirin))]
  /\ d_pc' = "seeded"
  /\ d_in' = <<>> /\ d_used' = <<>> /\ n2p_out' = <<>>
  /\ d_calls' = d_calls
  /\ UNCHANGED <<d_x, d_lo, d_up, d_Up, fNCycles>>
  /\ UNCHANGED <<mvars, pipes, qvars, wvars, ghost, cvars, fvars, gvars>>

\* ------------------------------------------ the loop over the parameters
\* Differentiate for two parameters.  The loop copies the point into vx once,
\* and a cycle of parameter i writes x[i] = xtf + step, x[i] = xtf - step and
\* x[i] = xtf around its two function calls.
Params == {1, 2}

\* the function of two parameters: a quadratic with a cross term
Fv(x) == F(x[1]) + Mul(x[1], x[2]) + F(x[2])

RestoreX_kept(x, i, xtf) == x

\* x[i] = xtf at the end of a cycle
RestoreX(x, i, xtf) == [x EXCEPT ![i] = xtf]

CyclesLeft_one_more(k, j) == j <= k.ncycle

\* the test of the cycle loop, j < ncycle
CyclesLeft(k, j) == j < k.ncycle

\* the state of parameter i in the loop state st
TripleOf(st, i) == <<st.grd[i], st.g2[i], st.gstep[i]>>

\* the cycles of parameter i from cycle j on; k holds what the call computed
\* before the loops, st the array x and the state, so is step_old.  st.evals
\* lists the points f is called at, each with the parameter whose cycle
\* called it; st.cyc lists the cycles: the parameter, how the cycle ended,
\* the parameter's state before and after it, the number of calls of f
\* before it and the array x after it
RECURSIVE ParamCycles(_, _, _, _, _, _)
ParamCycles(k, st, i, xtf, so, j) ==
  IF ~CyclesLeft(k, j) THEN st
  ELSE LET c == [x |-> st.x[i], fVal |-> k.fVal, dfmin |-> k.dfmin,
                 epspri |-> k.epspri, ncycle |-> k.ncycle]
           step == DifferentiateStep(c, st.g2[i], st.gstep[i])
       IN IF StepConvergedTol(so, step, k.tol)
            THEN [st EXCEPT !.cyc = Append(@, [i |-> i, brk |-> "step",
                                               before |-> TripleOf(st, i),
                                               after |-> TripleOf(st, i),
                                               nf |-> Len(st.evals),
                                               x |-> st.x])]
          ELSE LET xp == [st.x EXCEPT ![i] = xtf + step]
                   fs1 == Fv(xp)
                   xm == [xp EXCEPT ![i] = xtf - step]
                   fs2 == Fv(xm)
                   grd == FDiv(Mul(Half, fs1 - fs2), step)
                   done == GradConverged(c, st.grd[i], grd, step)
                   st0 == [x |-> RestoreX(xm, i, xtf),
                           grd |-> [st.grd EXCEPT ![i] = grd],
                           g2 |-> [st.g2 EXCEPT ![i] =
                                     FDiv(FDiv(fs1 + fs2 - 2 * k.fVal, step), step)],
                           gstep |-> [st.gstep EXCEPT ![i] = step],
                           evals |-> st.evals \o <<[i |-> i, at |-> xp],
                                                   [i |-> i, at |-> xm]>>,
                           cyc |-> st.cyc]
                   st1 == [st0 EXCEPT !.cyc =
                             Append(@, [i |-> i,
                                        brk |-> IF done THEN "grad" ELSE "none",
                                        before |-> TripleOf(st, i),
                                        after |-> TripleOf(st0, i),
                                        nf |-> Len(st.evals),
                                        x |-> st0.x])]
               IN IF done THEN st1
                  ELSE ParamCycles(k, st1, i, xtf, step, j + 1)

DifferentiateParam_step_old_gstep(k, st, i) ==
  ParamCycles([k EXCEPT !.epspri = eps2 + Abs(Mul(st.grd[i], eps2))],
              st, i, st.x[i], st.gstep[i], 0)

\* the body of the loop over i for one i
DifferentiateParam(k, st, i) ==
  ParamCycles([k EXCEPT !.epspri = eps2 + Abs(Mul(st.grd[i], eps2))],
              st, i, st.x[i], 0, 0)

\* the loop over i, taking the parameters in the given order
RECURSIVE ParamLoop(_, _, _)
ParamLoop(k, st, order) ==
  IF order = <<>> THEN st
  ELSE ParamLoop(k, DifferentiateParam(k, st, Head(order)), Tail(order))

\* what Differentiate computes before its loops, for the point x
PrecomputedV(x, Up, ncycle, tol) ==
  LET fVal == Fv(x) IN
  [fVal |-> fVal, dfmin |-> Mul(8 * eps2, Abs(fVal) + Up), epspri |-> 0,
   ncycle |-> ncycle, tol |-> tol]

Triples(st) == [i \in Params |-> <<st.grd[i], st.g2[i], st.gstep[i]>>]

\* the copy of the point, the state the call finds, and fVal = f(x) as the
\* first call of f
LoopState ==
  [x |-> g_x, grd |-> g_st.grd, g2 |-> g_st.g2, gstep |-> g_st.gstep,
   evals |-> <<[i |-> 0, at |-> g_x]>>, cyc |-> <<>>]

\* Differentiate on the incoming state g_st: ascending i
DifferentiateSerial ==
  /\ g_st # <<>>
  /\ LET r == ParamLoop(PrecomputedV(g_x, g_st.Up, g_st.ncycle, g_st.tol),
                        LoopState, <<1, 2>>)
     IN /\ g_serial' = Triples(r)
        /\ g_trace' = [evals |-> r.evals, cyc |-> r.cyc, x |-> r.x]
  /\ UNCHANGED <<g_x, g_st, g_perm, g_parts>>
  /\ UNCHANGED <<mvars, pipes, qvars, wvars, ghost, cvars, fvars, svars>>

\* the same loop over the same incoming state, descending i
DifferentiateDescending ==
  /\ g_st # <<>>
  /\ g_perm' = Triples(ParamLoop(PrecomputedV(g_x, g_st.Up, g_st.ncycle, g_st.tol),
                                 LoopState, <<2, 1>>))
  /\ UNCHANGED <<g_x, g_st, g_serial, g_parts, g_trace>>
  /\ UNCHANGED <<mvars, pipes, qvars, wvars, ghost, cvars, fvars, svars>>

\* one parameter alone, as a worker computes it from its own copy of the
\* point and the incoming state
partial_derivative(i) ==
  /\ g_st # <<>>
  /\ g_parts' = [g_parts EXCEPT ![i] =
       Triples(DifferentiateParam(PrecomputedV(g_x, g_st.Up, g_st.ncycle, g_st.tol),
                                  LoopState, i))[i]]
  /\ UNCHANGED <<g_x, g_st, g_serial, g_perm, g_trace>>
  /\ UNCHANGED <<mvars, pipes, qvars, wvars, ghost, cvars, fvars, svars>>

\* ------------------------------------------------------- specification
\* The protocol: the jobs register, one of them creates the manager and
\* activates it (Job::get_manager, or the first enqueue), and from then on
\* master enqueues, switches the work mode, sends updates and retrieves in
\* any order while the queue and the workers run.
SetupNext ==
  \/ ~instantiated /\ add_job_object
  \/ \E N \in 1..MaxWorkers : ~instantiated /\ job_objects # {} /\ instance(N)
  \/ ~is_activated /\ activate

MasterNext ==
  \/ \E j \in JobIds, t \in Tasks : OpsSent < MaxOps /\ to_queue_master(j, t)
  \/ \E flag \in BOOLEAN : OpsSent < MaxOps /\ set_work_mode(flag)
  \/ \E j \in JobIds, val \in UpdVals :
       OpsSent < MaxOps /\ update_real_master(j, 0, val, FALSE)
  \/ retrieve_send
  \/ retrieve_recv

QueueNext ==
  \/ queue_start
  \/ q_enqueue
  \/ q_retrieve
  \/ q_update_real
  \/ q_switch_work_mode
  \/ \E k \in Workers : q_dequeue(k)
  \/ \E k \in Workers : q_send_result(k)

WorkerNext ==
  \E k \in Workers :
    \/ worker_start(k)
    \/ worker_send_dequeue(k)
    \/ worker_read_work(k)
    \/ worker_ack(k)
    \/ worker_read_idle(k)

Next == SetupNext \/ MasterNext \/ QueueNext \/ WorkerNext

Spec == Init /\ [][Next]_vars

\* The protocol under fair scheduling. The queue process, every worker and
\* master are processes of their own: queue_loop polls all its pipes and
\* handles every pipe that has a message, so a message that waits on the
\* master pipe or on a worker pipe is handled; a worker runs its loop; master
\* stands in the blocking read of retrieve and goes on when the answer is
\* there.
QueueServesMaster ==
  queue_start \/ q_enqueue \/ q_retrieve \/ q_update_real \/ q_switch_work_mode

QueueServesWorker(k) == q_dequeue(k) \/ q_send_result(k)

WorkerRuns(k) ==
  \/ worker_start(k)
  \/ worker_send_dequeue(k)
  \/ worker_read_work(k)
  \/ worker_ack(k)
  \/ worker_read_idle(k)

\* the protocol without update_real: master enqueues, switches the work
\* mode and retrieves
RetrieveNext ==
  \/ SetupNext
  \/ \E j \in JobIds, t \in Tasks : OpsSent < MaxOps /\ to_queue_master(j, t)
  \/ \E flag \in BOOLEAN : OpsSent < MaxOps /\ set_work_mode(flag)
  \/ retrieve_send
  \/ retrieve_recv
  \/ queue_start
  \/ q_enqueue
  \/ q_retrieve
  \/ q_switch_work_mode
  \/ \E k \in Workers : q_dequeue(k)
  \/ \E k \in Workers : q_send_result(k)
  \/ WorkerNext

SpecBatch == Init /\ [][RetrieveNext]_vars

FairSpec ==
  /\ SpecBatch
  /\ WF_vars(QueueServesMaster)
  /\ \A k \in Workers : WF_vars(QueueServesWorker(k))
  /\ \A k \in Workers : WF_vars(WorkerRuns(k))
  /\ WF_vars(retrieve_recv)

\* The protocol of a batch when one worker process can end while it holds a
\* task
DeathNext ==
  \/ RetrieveNext
  \/ \E k \in Workers : (\A k2 \in Workers : w_pc[k2] # "failed") /\ worker_dies(k)

SpecDeath == Init /\ [][DeathNext]_vars

FairDeath ==
  /\ SpecDeath
  /\ WF_vars(QueueServesMaster)
  /\ \A k \in Workers : WF_vars(QueueServesWorker(k))
  /\ \A k \in Workers : WF_vars(WorkerRuns(k))
  /\ WF_vars(retrieve_recv)

\* The constructor of the manager, followed fork by fork
ForkInit ==
  /\ ManagerInit /\ NoDerivator /\ NoGradient
  /\ fork_N \in 1..MaxWorkers
  /\ procs = <<FirstProcess>>

\* each of the N + 2 processes of the first forks runs the second forks
ProcIds == 1..((MaxWorkers + 2) * (MaxWorkers + 2))

ForkNext ==
  \E i \in ProcIds :
    \/ fork_worker(i)
    \/ fork_queue(i)
    \/ create_connections(i)
    \/ fork_worker_pipe(i)
    \/ \E outcome \in {"crash", "no", "yes"} : fork_queue_pipe(i, outcome)

SpecFork == ForkInit /\ [][ForkNext]_vars

\* A broadcast before a batch, as a gradient job does it: one job and one
\* worker; master switches the workers to work-mode, sends updates of the
\* job's parameter and enqueues tasks, in any order
MaxUpdates == 4

BroadcastNext ==
  \/ job_objects = {} /\ ~instantiated /\ add_job_object
  \/ ~instantiated /\ job_objects # {} /\ instance(1)
  \/ ~is_activated /\ activate
  \/ nSwitch < 1 /\ set_work_mode(TRUE)
  \/ \E j \in JobIds, val \in UpdVals :
       Len(updLog) < MaxUpdates /\ update_real_master(j, 0, val, FALSE)
  \/ \E j \in JobIds, t \in Tasks : Len(enqLog) < 2 /\ to_queue_master(j, t)
  \/ queue_start
  \/ q_enqueue
  \/ q_update_real
  \/ q_switch_work_mode
  \/ \E k \in Workers : q_dequeue(k)
  \/ \E k \in Workers : q_send_result(k)
  \/ WorkerNext

SpecBroadcast == Init /\ [][BroadcastNext]_vars

\* Updates of parameters with a high index: one job whose parameter list has
\* more than 40 entries; master switches the workers to work-mode, enqueues a
\* task and sends an update of parameter 0 or of parameter 40, in any order
UpdIxs == {0, Q2W_dequeue_rejected}

IndexNext ==
  \/ job_objects = {} /\ ~instantiated /\ add_job_object
  \/ ~instantiated /\ job_objects # {} /\ instance(MaxWorkers)
  \/ ~is_activated /\ activate
  \/ nSwitch < 1 /\ set_work_mode(TRUE)
  \/ \E j \in JobIds, ix \in UpdIxs :
       Len(updLog) < 1 /\ update_real_master(j, ix, 1, FALSE)
  \/ \E j \in JobIds, t \in Tasks : Len(enqLog) < 1 /\ to_queue_master(j, t)
  \/ queue_start
  \/ q_enqueue
  \/ q_update_real
  \/ q_switch_work_mode
  \/ \E k \in Workers : q_dequeue(k)
  \/ \E k \in Workers : q_send_result(k)
  \/ WorkerNext

SpecIndex == Init /\ [][IndexNext]_vars

\* Jobs that are destroyed while the manager lives on: two jobs register, the
\* manager is created and activated; one of the jobs may then be removed on
\* master, while the other enqueues a task and retrieves
RemoveNext ==
  \/ SetupNext
  \/ \E j \in JobIds :
       is_activated /\ Cardinality(job_objects) > 1 /\ remove_job_object(j)
  \/ nSwitch < 1 /\ set_work_mode(TRUE)
  \/ \E j \in JobIds, t \in Tasks : Len(enqLog) < 1 /\ to_queue_master(j, t)
  \/ retrieve_send
  \/ retrieve_recv
  \/ queue_start
  \/ q_enqueue
  \/ q_retrieve
  \/ q_switch_work_mode
  \/ \E k \in Workers : q_dequeue(k)
  \/ \E k \in Workers : q_send_result(k)
  \/ WorkerNext

SpecRemove == Init /\ [][RemoveNext]_vars

\* Work modes over the life of the manager: a job registers and creates the
\* manager; master activates, calls set_work_mode with either flag,
\* terminates and activates again, in any order; the workers ask for tasks
\* while in work-mode
ModeNext ==
  \/ job_objects = {} /\ ~instantiated /\ add_job_object
  \/ ~instantiated /\ job_objects # {} /\ instance(MaxWorkers)
  \/ ~is_activated /\ activate
  \/ \E flag \in BOOLEAN : nSwitch < MaxOps /\ set_work_mode(flag)
  \/ queue_pipe = "open" /\ terminate
  \/ shutdown_done
  \/ child_exit_unactivated
  \/ queue_start
  \/ q_switch_work_mode
  \/ q_terminate
  \/ q_close_worker
  \/ \E k \in Workers : q_dequeue(k)
  \/ \E k \in Workers : worker_start(k)
  \/ \E k \in Workers : worker_send_dequeue(k)
  \/ \E k \in Workers : worker_read_work(k)
  \/ \E k \in Workers : worker_read_idle(k)

SpecMode == Init /\ [][ModeNext]_vars

\* Calls of a method of a job on a chosen worker: master switches the work
\* mode, enqueues a task and, once activated, calls call_double_const_method,
\* in any order, while the queue and the workers run
MaxRequests == 2

CallNext ==
  \/ SetupNext
  \/ \E flag \in BOOLEAN : nSwitch < 2 /\ set_work_mode(flag)
  \/ \E j \in JobIds, t \in Tasks : Len(enqLog) < 1 /\ to_queue_master(j, t)
  \/ \E key \in Keys, j \in JobIds, k \in Workers :
       is_activated /\ Len(calls) < MaxRequests
         /\ call_double_const_method(key, j, k)
  \/ call_double_const_method_return
  \/ queue_start
  \/ q_enqueue
  \/ q_switch_work_mode
  \/ q_call_double_const_method
  \/ q_call_result
  \/ \E k \in Workers : q_dequeue(k)
  \/ \E k \in Workers : q_send_result(k)
  \/ \E k \in Workers : q_worker_unknown(k)
  \/ WorkerNext
  \/ \E k \in Workers : worker_call_double_const_method(k)

SpecCall == Init /\ [][CallNext]_vars

\* the same under fair scheduling: the queue process handles what waits on
\* its pipes, the workers run their loops, master goes on when the result
\* of its call is there
FairCall ==
  /\ SpecCall
  /\ WF_vars(queue_start \/ q_enqueue \/ q_switch_work_mode
               \/ q_call_double_const_method \/ q_call_result)
  /\ \A k \in Workers :
       WF_vars(q_dequeue(k) \/ q_send_result(k) \/ q_worker_unknown(k))
  /\ \A k \in Workers :
       WF_vars(WorkerRuns(k) \/ worker_call_double_const_method(k))
  /\ WF_vars(call_double_const_method_return)

\* The life of the manager: jobs register and unregister, the instance is
\* asked for, activated and terminated in any order, and the children run
\* up to their message loops and leave them on terminate.
LifeNext ==
  \/ add_job_object
  \/ \E N \in 1..MaxWorkers : instance(N)
  \/ instance0
  \/ activate
  \/ terminate
  \/ \E j \in JobIds : remove_job_object(j)
  \/ shutdown_done
  \/ child_exit_unactivated
  \/ queue_start
  \/ q_terminate
  \/ q_close_worker
  \/ \E k \in Workers : worker_start(k)
  \/ \E k \in Workers : worker_read_idle(k)

SpecLife == Init /\ [][LifeNext]_vars

\* The life of the manager with enqueues: a job may call to_queue on a
\* manager in any state of its life, activated or not
EnqueueLifeNext ==
  \/ LifeNext
  \/ \E j \in JobIds, t \in Tasks : Len(enqLog) < MaxOps /\ to_queue_master(j, t)
  \/ q_enqueue

SpecEnqueueLife == Init /\ [][EnqueueLifeNext]_vars

\* The life of the manager when the pipe can fail during terminate()
FaultNext ==
  \/ LifeNext
  \/ \E sent \in BOOLEAN : Len(m2q) < MaxOps /\ terminate_pipe_error(sent)

SpecFault == Init /\ [][FaultNext]_vars

\* Manager generations: one job at a time registers, creates the manager,
\* switches the workers to work-mode, enqueues one task and retrieves; the
\* removal of the job tears the manager down at any moment, and the next job
\* starts over in the same process.
RestartNext ==
  \/ job_objects = {} /\ ~instantiated /\ add_job_object
  \/ \E N \in 1..MaxWorkers : ~instantiated /\ job_objects # {} /\ instance(N)
  \/ ~is_activated /\ activate
  \/ set_work_mode(TRUE)
  \/ \E j \in JobIds, t \in Tasks : Len(enqLog) < job_counter /\ to_queue_master(j, t)
  \/ retrieve_send
  \/ retrieve_recv
  \/ \E j \in JobIds : remove_job_object(j)
  \/ shutdown_done
  \/ child_exit_unactivated
  \/ queue_start
  \/ q_enqueue
  \/ q_retrieve
  \/ q_switch_work_mode
  \/ q_terminate
  \/ q_close_worker
  \/ \E k \in Workers : q_dequeue(k)
  \/ \E k \in Workers : q_send_result(k)
  \/ WorkerNext

SpecRestart == Init /\ [][RestartNext]_vars

\* the generations under fair scheduling: as in FairSpec, and the queue
\* process runs terminate_workers to its end, the children that never
\* reached activate() run to the end of the program, and master returns from
\* the close of the queue pipe and the wait for the workers
FairRestart ==
  /\ SpecRestart
  /\ WF_vars(QueueServesMaster)
  /\ \A k \in Workers : WF_vars(QueueServesWorker(k))
  /\ \A k \in Workers : WF_vars(WorkerRuns(k))
  /\ WF_vars(retrieve_recv)
  /\ WF_vars(q_terminate \/ q_close_worker \/ child_exit_unactivated)
  /\ WF_vars(shutdown_done)

\* The derivator on its own: constructed for one parameter at a point, with
\* some error level, number of cycles and state (SetInitialValues); then
\* seeded and called
MaxCycles == 2
MaxCalls == 2
Points == {0, One \div 4, -(One \div 4), 3 * One}
Ups == {0, Half, One}
Grads == {0, Tenth(One), 6 * One}
G2s == {0, Tenth(One), 2 * One}
Gsteps == {0, vrysml, Tenth(One), One}
Werrs == {0, Tenth(One), One, 8 * One}
Internals == {-One, 0, One, 8 * One}

DerivInit ==
  /\ ManagerInit /\ NoFork
  /\ d_pc = "ready"
  /\ d_x \in Points /\ d_lo \in BOOLEAN /\ d_up \in BOOLEAN /\ d_Up \in Ups
  /\ fNCycles \in 1..MaxCycles
  /\ fGrd \in Grads /\ fG2 \in G2s /\ fGstep \in Gsteps
  /\ d_in = <<>> /\ d_used = <<>> /\ d_calls = 0 /\ n2p_out = <<>>
  /\ d_seed = <<>>
  /\ NoGradient

DerivNext ==
  \/ \E werr \in Werrs, var2p \in Internals, var2m \in Internals :
       d_in = <<>> /\ SetInitialGradient(werr, var2p, var2m)
  \/ d_calls < MaxCalls /\ (d_in = <<>> \/ n2p_out # <<>>) /\ Differentiate
  \/ Numerical2PGradientCalculator

SpecDeriv == DerivInit /\ [][DerivNext]_vars

\* The derivator for two parameters: the incoming state is drawn, then the
\* loop runs over it in ascending order, in descending order and for each
\* parameter alone
GradPoints == {<<0, One>>, <<One \div 4, 3 * One>>, <<3 * One, -One>>,
               <<One, One>>}
GradGsteps == {<<vrysml, One>>, <<Tenth(One), Tenth(One)>>, <<One, 0>>}
GradG2s == {<<0, 0>>, <<Tenth(One), 2 * One>>}
GradGrads == {<<0, 0>>, <<Tenth(One), 6 * One>>}

GradInit ==
  /\ ManagerInit /\ NoDerivator /\ NoFork
  /\ g_x \in GradPoints
  /\ g_st \in [grd : GradGrads, g2 : GradG2s, gstep : GradGsteps,
               Up : {Half, One}, ncycle : 1..MaxCycles, tol : {fStepTolerance}]
  /\ g_serial = <<>> /\ g_perm = <<>> /\ g_trace = <<>>
  /\ g_parts = [i \in Params |-> <<>>]

GradNext ==
  \/ DifferentiateSerial
  \/ DifferentiateDescending
  \/ \E i \in Params : partial_derivative(i)

SpecGrad == GradInit /\ [][GradNext]_vars

\* The course of one call: the derivator for two parameters is constructed
\* with a number of cycles from 0 on and a step tolerance of at most 1, takes
\* a state, and Differentiate runs on it
TracePoints == GradPoints \cup {<<0, 0>>}
TraceGsteps == GradGsteps \cup {<<One, One>>}
TraceTols == {fStepTolerance, One}

TraceInit ==
  /\ ManagerInit /\ NoDerivator /\ NoFork
  /\ g_x \in TracePoints
  /\ g_st \in [grd : GradGrads, g2 : GradG2s, gstep : TraceGsteps,
               Up : Ups, ncycle : 0..MaxCycles, tol : TraceTols]
  /\ g_serial = <<>> /\ g_perm = <<>> /\ g_trace = <<>>
  /\ g_parts = [i \in Params |-> <<>>]

TraceNext == DifferentiateSerial

SpecTrace == TraceInit /\ [][TraceNext]_vars

\* ------------------------------------------------------------- helpers
IsPrefix(a, b) == Len(a) <= Len(b) /\ SubSeq(b, 1, Len(a)) = a

\* the entries of a log of <<worker, job, task>> that belong to worker k
OfWorker(k, log) == SelectSeq(log, LAMBDA e : e[1] = k)

\* a log of <<worker, job, task>> without the workers
JobTasksOf(log) == [i \in 1..Len(log) |-> <<log[i][2], log[i][3]>>]

\* the number of messages with this tag that wait in pipe p
CountTag(p, tag) == Len(SelectSeq(p, LAMBDA w : w.k = "int" /\ w.v = tag))

\* the tasks that have a result in a result store
Filled(res) == {jt \in JobTasks : res[jt] # NoResult}

\* ------------------------------------------------------------------ C1
\* C1: every JobTask master enqueues is handed out with dequeue_accepted to
\* exactly one worker, evaluated exactly once and recorded exactly once (here
\* already for the runs in which master sends no update_real): the tasks
\* handed out are the enqueued ones, each once and in order; a worker
\* evaluates the tasks handed to it and nothing else; a task handed to a
\* worker is evaluated by it or its dequeue_accepted still waits in its pipe
\* (no task is lost); the results recorded are those of the evaluated tasks.
C1_EveryTaskExactlyOnce ==
  updLog = <<>> =>
    /\ IsPrefix(JobTasksOf(handLog), enqLog)
    /\ \A k \in Workers :
         /\ IsPrefix(OfWorker(k, evalLog), OfWorker(k, handLog))
         /\ IsPrefix(OfWorker(k, recLog), OfWorker(k, evalLog))
         /\ Len(OfWorker(k, handLog)) =
              Len(OfWorker(k, evalLog)) + CountTag(q2w[k], Q2W_dequeue_accepted)

\* ------------------------------------------------------------------ C2
\* the queue process handles an M2Q::retrieve in this step
RetrieveStep == QueueReads(M2Q_retrieve) /\ m2q' = Tail(m2q) /\ q2m' # q2m

\* C2: the queue answers M2Q::retrieve with retrieve_accepted only when the
\* FIFO is empty and N_tasks_completed = N_tasks, and with retrieve_rejected
\* in every other state.
C2_RetrieveHandshake ==
  [][RetrieveStep =>
       IF queue = <<>> /\ N_tasks_completed = N_tasks
         THEN /\ Len(q2m') >= Len(q2m) + 2
              /\ q2m'[Len(q2m) + 1] = TagW(Q2M_retrieve_accepted)
         ELSE q2m' = Append(q2m, TagW(Q2M_retrieve_rejected))]_vars

\* a retrieve is accepted after the results of two tasks were recorded
C2_Witness ==
  /\ retrieved = 2 /\ Len(recLog) = 2
  /\ m_pc = "retrieve"
  /\ q2m # <<>> /\ Head(q2m) = TagW(Q2M_retrieve_accepted)
  /\ \E k \in Workers : CountTag(q2w[k], Q2W_dequeue_rejected) > 0

\* ------------------------------------------------------------------ C7
\* the queue process handles a W2Q::dequeue of worker k in this step
DequeueStep(k) == WorkerSends(k, W2Q_dequeue) /\ w2q'[k] = Tail(w2q[k])

\* C7: tasks are handed out in the order master enqueued them; a dequeue on an
\* empty queue is answered with dequeue_rejected and changes neither the queue
\* nor the counters; a dequeue on a non-empty queue removes exactly the head
\* and answers dequeue_accepted with it.
C7_FifoOrder ==
  /\ [](IsPrefix(JobTasksOf(handLog), enqLog))
  /\ [][\A k \in Workers : DequeueStep(k) =>
          IF queue = <<>>
            THEN /\ q2w'[k] = Append(q2w[k], TagW(Q2W_dequeue_rejected))
                 /\ UNCHANGED <<queue, N_tasks, N_tasks_completed, handLog>>
            ELSE /\ queue' = Tail(queue)
                 /\ q2w'[k] = q2w[k] \o <<TagW(Q2W_dequeue_accepted),
                                          SzW(Head(queue)[1]), SzW(Head(queue)[2])>>
                 /\ UNCHANGED <<N_tasks, N_tasks_completed>>]_vars

\* two different tasks were enqueued and both were handed out, after a
\* dequeue had been rejected
C7_Witness ==
  /\ Len(handLog) = 2
  /\ enqLog[1] # enqLog[2]
  /\ \E k \in Workers : CountTag(q2w[k], Q2W_dequeue_rejected) > 0

\* ------------------------------------------------------------------ C3
\* a process has failed: a worker threw on a wrong handshake, or master died
ProcessFailed == m_pc = "crashed" \/ \E k \in Workers : w_pc[k] = "failed"

Enqueued == {enqLog[i] : i \in 1..Len(enqLog)}

\* master has read the accepted answer of a retrieve that covers every task
\* it enqueued
RetrieveReturned ==
  m_pc = "run" /\ retrieved = Len(enqLog) /\ retrieved > 0 /\ q2m = <<>>

\* C4: when retrieve has returned, the result master holds for every task it
\* enqueued is the value the serial evaluation computes for that task,
\* whichever worker ran it and in whatever order the results came in; master
\* never holds another value for a task.
C4_ParallelEqualsSerial ==
  /\ RetrieveReturned =>
       \A jt \in Enqueued :
         m_results[jt] = SerialEvaluate(jt[2], InitialB(jt[1]))
  /\ \A jt \in JobTasks :
       m_results[jt] \in {NoResult, SerialEvaluate(jt[2], InitialB(jt[1]))}

\* retrieve has returned the results of two tasks that two workers ran and
\* whose results came in against the order of enqueueing
C4_Witness ==
  /\ RetrieveReturned
  /\ Len(enqLog) = 2 /\ Len(recLog) = 2
  /\ recLog[1][1] # recLog[2][1]
  /\ JobTasksOf(recLog) = <<enqLog[2], enqLog[1]>>
  /\ enqLog[1] # enqLog[2]

\* ------------------------------------------------------------------ C5
\* C5: a task is evaluated by a worker as the (job_id, task_id) it was
\* enqueued with and with the parameter of that job, its result is stored and
\* streamed under that job, and when retrieve has returned, the tasks master
\* holds a result for are, job by job, the tasks enqueued for that job.
C5_ResultsPerJob ==
  /\ [](\A k \in Workers :
          IsPrefix(OfWorker(k, evalLog), OfWorker(k, handLog)))
  /\ [][\A k \in Workers : evalLog' # evalLog /\ w2q'[k] # w2q[k] =>
          LET e == evalLog'[Len(evalLog')]
          IN w2q'[k] = w2q[k] \o <<TagW(W2Q_send_result), SzW(e[2]), SzW(e[3]),
                                    DblW(e[3] * e[3] + InitialB(e[2]))>>]_vars
  /\ [][\A k \in Workers : recLog' # recLog /\ w2q'[k] # w2q[k] =>
          LET m == w2q[k]
          IN q_results' = [q_results EXCEPT ![<<m[2].v, m[3].v>>] = m[4].v]]_vars
  /\ [](\A jt \in JobTasks : m_results[jt] # NoResult =>
          /\ jt \in Enqueued
          /\ \E i \in 1..Len(evalLog) : <<evalLog[i][2], evalLog[i][3]>> = jt)
  /\ [](RetrieveReturned =>
          \A j \in JobIds :
            {t \in Tasks : m_results[<<j, t>>] # NoResult}
              = {t \in Tasks : <<j, t>> \in Enqueued})

\* two jobs are registered; the first has enqueued a task and retrieved its
\* result, the second has enqueued a task and its retrieve is accepted with
\* an answer that holds no result for the first job and one for the second
C5_Witness ==
  /\ job_objects = {0, 1}
  /\ Len(enqLog) = 2 /\ enqLog[1][1] = 0 /\ enqLog[2][1] = 1
  /\ retrieved = 2 /\ m_pc = "retrieve"
  /\ Len(q2m) = 8 /\ Head(q2m) = TagW(Q2M_retrieve_accepted)
  /\ Filled(m_results) = {enqLog[1]}

\* ------------------------------------------------------------------ C6
\* the tasks master enqueued since the last accepted retrieve
Batch == {enqLog[i] : i \in (retrieved + 1)..Len(enqLog)}

\* C6: at an accepted retrieve the result store of the queue holds a result
\* for exactly the tasks master enqueued since the last accepted retrieve,
\* these are streamed to master, and the queue is left with N_tasks = 0,
\* N_tasks_completed = 0 and every job's result store cleared; a rejected
\* retrieve changes nothing on the queue process; once master has read an
\* accepted retrieve it holds a result for every task it enqueued and for
\* nothing else.
C6_RetrieveDrains ==
  /\ [][RetrieveStep =>
         IF queue = <<>> /\ N_tasks_completed = N_tasks
           THEN /\ Filled(q_results) = Batch
                /\ q2m' = q2m \o <<TagW(Q2M_retrieve_accepted),
                                   SzW(Cardinality(child_jobs))>>
                              \o SerJobs(q_results, child_jobs, 0)
                /\ N_tasks' = 0 /\ N_tasks_completed' = 0
                /\ Filled(q_results') = {}
           ELSE UNCHANGED <<queue, N_tasks, N_tasks_completed, q_results,
                            q_pc, child_jobs>>]_vars
  /\ [](m_pc = "run" /\ retrieved = Len(enqLog) /\ q2m = <<>>
          => Filled(m_results) = {enqLog[i] : i \in 1..Len(enqLog)})

\* the second batch of master is accepted and the answer carries the one
\* task of that batch only
C6_Witness ==
  /\ Len(enqLog) = 2 /\ enqLog[1] # enqLog[2] /\ retrieved = 2
  /\ m_pc = "retrieve"
  /\ Len(q2m) = 6 /\ Head(q2m) = TagW(Q2M_retrieve_accepted)
  /\ Filled(m_results) = {enqLog[1]}

\* ------------------------------------------------------------------ C8
RECURSIVE IsSubSeq(_, _)
\* a is b with some elements left out
IsSubSeq(a, b) ==
  IF a = <<>> THEN TRUE
  ELSE IF b = <<>> THEN FALSE
  ELSE IF Head(a) = Head(b) THEN IsSubSeq(Tail(a), Tail(b))
  ELSE IsSubSeq(a, Tail(b))

\* the updates sent to worker k that it has not read yet
PendingUpdates(k) ==
  CountTag(q2w[k], Q2W_update_real) + CountTag(m2q, M2Q_update_real)

WorkerReads(k, tag) ==
  /\ w_pc[k] = "loop" /\ q2w[k] # <<>> /\ ReadTag(q2w[k], w_off[k]) = tag
  /\ Len(q2w'[k]) < Len(q2w[k])

C9_AddJobObject ==
  [][add_job_object =>
       IF instantiated /\ queue_activated
         THEN /\ last' = "add_logic_error"
              /\ UNCHANGED <<job_objects, job_counter>>
         ELSE /\ last' = "add_ok"
              /\ job_counter' = job_counter + 1
              /\ job_objects' = job_objects \cup {job_counter}]_vars

\* after two jobs were registered the manager was activated and a third
\* registration has failed
C9_Witness ==
  /\ last = "add_logic_error"
  /\ job_counter = 2 /\ job_objects = {0, 1}
  /\ instantiated /\ queue_activated

\* ----------------------------------------------------------------- C10
\* C10 as stated: the instance exists from the registration of the first job
\* until the removal of the last registered job.
C10_InstanceFromFirstJob ==
  m_pc = "run" => (instantiated <=> job_objects # {})

\* the whole forked process tree and its pipes
forkVars == <<N_workers, processes_initialized, queue_pipe, pipes, qvars, wvars>>

\* C10 amended: there is one instance slot; registering a job never creates
\* the instance: it is created, and its processes forked, by the first
\* instance(N_workers) call (Job::get_manager), so jobs can be registered
\* while no instance exists; instance(N_workers) called while an instance
\* exists returns it and forks nothing; the instance goes away only through
\* the removal of the last registered job, which starts the shutdown of its
\* processes, and it is gone when the queue and every worker have exited.
C10_InstanceLifetime ==
  /\ [][add_job_object => instantiated' = instantiated /\ UNCHANGED forkVars]_vars
  /\ [][~instantiated /\ instantiated' =>
          /\ last' = "instance_new"
          /\ processes_initialized' /\ queue_pipe' = "open" /\ q_pc' = "forked"
          /\ ~queue_activated']_vars
  /\ [][(instantiated /\ \E N \in 1..MaxWorkers : instance(N)) =>
          /\ instantiated' /\ last' = "instance_same"
          /\ UNCHANGED <<forkVars, queue_activated, job_objects>>]_vars
  /\ [][(\E j \in JobIds : remove_job_object(j)) =>
          IF job_objects' = {} /\ instantiated /\ queue_pipe = "open"
            THEN /\ m_pc' = "closing" /\ m_dtor'
                 /\ m2q' = Append(m2q, TagW(M2Q_terminate))
            ELSE job_objects' # {} => UNCHANGED <<instantiated, forkVars>>]_vars
  /\ [][instantiated /\ ~instantiated' =>
          /\ job_objects' = {}
          /\ ~processes_initialized' /\ ~queue_activated'
          /\ (queue_pipe = "open" =>
                /\ q_pc = "exited"
                /\ \A k \in ActiveWorkers : w_pc[k] \in {"exited", "failed"}
                /\ queue_pipe' = "null")]_vars

\* two jobs were registered and removed again, and the removal of the last
\* one has destroyed the instance after its queue and both workers had run
\* their loops and exited on terminate
C10_Witness ==
  /\ ~instantiated /\ m_pc = "run"
  /\ job_counter = 2 /\ job_objects = {}
  /\ queue_pipe = "null"
  /\ q_pc = "exited" /\ q_term = N_workers /\ N_workers = 2
  /\ \A k \in Workers : w_pc[k] = "exited"

\* ----------------------------------------------------------------- C11
\* the second job of the process is the one registered
SecondManager == job_counter = 2 /\ job_objects = {1}

\* the task master enqueued last
LastEnqueued == IF enqLog = <<>> THEN <<0, 0>> ELSE enqLog[Len(enqLog)]

C12_JobIdsNeverReused ==
  /\ [](\A j \in job_objects : j < job_counter)
  /\ [][job_counter' >= job_counter]_vars
  /\ [][job_objects' \ job_objects # {} =>
          /\ job_objects' = job_objects \cup {job_counter}
          /\ job_counter' = job_counter + 1]_vars
  /\ [][job_counter' # job_counter =>
          /\ job_counter' = job_counter + 1
          /\ job_objects' = job_objects \cup {job_counter}]_vars

\* the first job was removed and its manager torn down, and the job
\* registered after that has got the id 1
C12_Witness ==
  /\ job_objects = {1} /\ job_counter = 2 /\ last = "add_ok"
  /\ ~instantiated /\ queue_pipe = "null" /\ q_pc = "exited"

\* ----------------------------------------------------------------- C13
\* C13: after master has sent M2Q::terminate (it then stands in the close of
\* the queue pipe), the queue and every worker eventually exit with status
\* 0, whatever a worker is waiting for at that moment.
C13_AllExitCleanly ==
  (m_pc = "closing")
    ~> (q_pc = "exited" /\ \A k \in ActiveWorkers : w_pc[k] = "exited")

\* ----------------------------------------------------------------- C14
\* C14: terminate() never passes an exception on: when the pipe throws during
\* the shutdown, terminate reports a warning and returns with master running
\* and the instance and the registry as they were; when the pipe does not
\* throw, terminate stands in the close of the queue pipe and then returns.
C14_TerminateNeverThrows ==
  /\ [][(\E sent \in BOOLEAN : terminate_pipe_error(sent)) =>
          /\ m_pc' = "run" /\ last' = "terminate_warning"
          /\ UNCHANGED <<instantiated, job_objects, job_counter>>]_vars
  /\ [][terminate /\ queue_pipe = "open" => m_pc' = "closing"]_vars
  /\ [][m_pc = "closing" /\ m_pc' # "closing" => m_pc' = "run"]_vars

\* the pipe has thrown in terminate() after M2Q::terminate was written: master
\* runs on, the warning is reported, and the manager still counts as
\* activated with its pipe not reset
C14_Witness ==
  /\ last = "terminate_warning" /\ m_pc = "run"
  /\ instantiated /\ queue_activated /\ processes_initialized
  /\ queue_pipe = "open" /\ q_pc = "exited"

\* ----------------------------------------------------------------- C15
\* C15: instance() without argument throws runtime_error whenever no manager
\* exists, before the first creation as well as after a teardown, and then
\* creates neither a manager nor a process; when a manager exists it returns
\* that manager and changes nothing.
C15_InstanceWithoutArgument ==
  [][instance0 =>
       /\ last' = IF instantiated THEN "instance0_ok"
                                  ELSE "instance0_runtime_error"
       /\ UNCHANGED <<instantiated, N_workers, processes_initialized,
                      queue_pipe, q_pc, w_pc, job_objects, job_counter>>]_vars

\* instance() has thrown after a teardown: a job was registered and removed
\* again, the processes of the destroyed manager have exited, none exists now
C15_Witness ==
  /\ last = "instance0_runtime_error"
  /\ ~instantiated /\ job_counter > 0 /\ job_objects = {}
  /\ q_pc = "exited" /\ queue_pipe = "null"

\* ----------------------------------------------------------------- C16
\* C16: for the same function, point, incoming (grad, g2, gstep), tolerances,
\* number of cycles and error level, Differentiate leaves the same (grad, g2,
\* gstep) as Numerical2PGradientCalculator returns, for a parameter with
\* limits as for one without.
C16_SameAsMinuit2 ==
  n2p_out # <<>> => n2p_out = <<fGrd, fG2, fGstep>>

\* ----------------------------------------------------------------- C17
\* C17: every step a cycle of Differentiate computes is at least
\* max(vrysml, 8*|eps2*x|), which is above zero, so no cycle divides by a
\* zero step; and the gstep Differentiate stores is at least vrysml.
C17_StepAtLeastLowerClamp ==
  /\ vrysml > 0
  /\ stpmin(d_x) >= vrysml
  /\ \A i \in DOMAIN d_used : d_used[i].step >= stpmin(d_x)
  /\ (\E i \in DOMAIN d_used : d_used[i].stored) => fGstep >= vrysml

\* a call has stored a step that the lower clamp raised to 8*|eps2*x|,
\* above vrysml and above ten times the gstep before it
C17_Witness ==
  /\ d_calls > 0
  /\ \E i \in DOMAIN d_used :
       /\ d_used[i].stored
       /\ d_used[i].step = stpmin(d_x)
       /\ stpmin(d_x) > vrysml
       /\ d_used[i].prev # 0
       /\ stpmin(d_x) > 10 * Abs(d_used[i].prev)

\* ----------------------------------------------------------------- C18
\* C18 (as stated): in every cycle of Differentiate the step is at most ten
\* times the absolute value of the gstep before it.
C18_StepAtMostTenfold ==
  \A i \in DOMAIN d_used : d_used[i].step <= 10 * Abs(d_used[i].prev)

\* C18 (amended): the step is at most the larger of ten times the absolute
\* value of the gstep before it and the lower clamp max(vrysml, 8*|eps2*x|),
\* which is applied after the upper clamp.
C18_StepAtMostTenfoldOrLowerClamp ==
  \A i \in DOMAIN d_used :
    d_used[i].step <= Max(10 * Abs(d_used[i].prev), stpmin(d_x))

\* a call has stored a step that the upper clamp cut to ten times the gstep
\* before it, above the lower clamp
C18_Witness ==
  /\ d_calls > 0
  /\ \E i \in DOMAIN d_used :
       /\ d_used[i].stored
       /\ d_used[i].step = 10 * Abs(d_used[i].prev)
       /\ d_used[i].step > stpmin(d_x)
       /\ Abs(Tenth(d_used[i].prev)) < d_used[i].step

\* ----------------------------------------------------------------- C19
\* C19: for a parameter with limits, every step a cycle of Differentiate
\* computes is at most 0.5 whenever the lower clamp is at most 0.5.
C19_LimitedStepAtMostHalf ==
  (HasLimits /\ stpmin(d_x) <= Half)
    => \A i \in DOMAIN d_used : d_used[i].step <= Half

\* ----------------------------------------------------------------- C20
\* C20: SetInitialGradient leaves gstep <= 0.5 for a parameter that has a
\* lower or an upper limit, whatever the point, the error width and the
\* transformed values are.
C20_SeededStepAtMostHalf ==
  [][(\E werr \in Werrs, var2p \in Internals, var2m \in Internals :
        SetInitialGradient(werr, var2p, var2m))
       => ((d_lo \/ d_up) => fGstep' <= Half)]_vars

\* a parameter with a lower limit only was seeded and the clamp cut its
\* gstep to 0.5
C20_Witness ==
  /\ d_pc = "seeded" /\ d_lo /\ ~d_up
  /\ fGstep = Half

\* ----------------------------------------------------------------- C21
\* C21: right after SetInitialGradient, dirin >= gsmin > 0, also for werr = 0 and
\* for clipped neighbours that coincide with the current value; so dirin^2 is
\* above zero and g2 = 2*Up/dirin^2 is finite and at least 0, grad is
\* g2*dirin, and gstep before the limit clamp is at least gsmin.
C21_SeedGuardsZeroStep ==
  (d_pc = "seeded" /\ d_calls = 0) =>
    /\ d_seed.gsmin > 0
    /\ d_seed.dirin >= d_seed.gsmin
    /\ d_seed.gsmin >= SetInitialGradient_gsmin(d_x)
    /\ Mul(d_seed.dirin, d_seed.dirin) > 0
    /\ fG2 = FDiv(2 * d_Up, Mul(d_seed.dirin, d_seed.dirin))
    /\ fG2 >= 0
    /\ fGrd = Mul(fG2, d_seed.dirin)
    /\ d_seed.gstep >= d_seed.gsmin

\* seeded away from zero with both neighbours on the current value: only
\* the guard keeps dirin above zero
C21_Witness ==
  /\ d_pc = "seeded" /\ d_calls = 0 /\ d_x # 0
  /\ d_seed.vplu = 0 /\ d_seed.vmin = 0
  /\ d_seed.dirin = d_seed.gsmin
  /\ d_Up > 0 /\ fG2 > 0

ReadTagAt(k) == IF q2w[k] # <<>> /\ WorkerCanRead(k) THEN ReadTag(q2w[k], w_off[k]) ELSE 0

\* ----------------------------------------------------------------- C23
\* the first enqueue of task t of job j
FirstEnqueue(j, t) ==
  CHOOSE i \in 1..Len(enqLog) :
    /\ enqLog[i] = <<j, t>>
    /\ \A i2 \in 1..(i - 1) : enqLog[i2] # <<j, t>>

\* the updates of job j that master sent before it first enqueued task t
UpdatesBefore(j, t) ==
  SelectSeq(SubSeq(updLog, 1, enqUpd[FirstEnqueue(j, t)]),
            LAMBDA u : u[1] = j)

\* C23: when a worker evaluates task t of job j, it has applied every
\* update_real of job j that master sent before it enqueued t, in whatever
\* mode the worker was when the updates reached it.
C23_UpdatesBeforeEvaluate ==
  [][Len(evalLog') = Len(evalLog) + 1 =>
       LET e == evalLog'[Len(evalLog')]
       IN IsSubSeq(UpdatesBefore(e[2], e[3]), applied[e[1]])]_vars

\* ----------------------------------------------------------------- C24
\* C24: the message a worker reads in the handshake after send_result is
\* always Q2W::result_received; no terminate, switch_work_mode, update_real
\* or other message of the queue comes in between, so no worker ever ends in
\* the fatal handshake mismatch.
C24_HandshakeNeverFails ==
  [][\A k \in Workers :
       w_pc[k] = "ack" /\ w_pc'[k] # "ack" =>
         /\ ReadTagAt(k) = Q2W_result_received
         /\ w_pc'[k] = "loop"]_vars

\* ----------------------------------------------------------------- C25
\* worker k stands at the top of its loop in work-mode with the flag set: its
\* next statement writes W2Q::dequeue, before it reads anything
SendsDequeueNext(k) ==
  w_pc[k] = "loop" /\ work_mode[k] /\ dequeue_acknowledged[k]

\* worker k, in work-mode, reads Q2W::dequeue_rejected in this step
ReadsRejected(k) ==
  /\ w_pc[k] = "loop" /\ work_mode[k] /\ ~dequeue_acknowledged[k]
  /\ ReadTagAt(k) = Q2W_dequeue_rejected
  /\ <<q2w[k], w_off[k]>>' # <<q2w[k], w_off[k]>>
  /\ Len(q2w'[k]) <= Len(q2w[k])

\* C25: a worker in work-mode that has read dequeue_rejected does not send
\* another W2Q::dequeue before it has read another message of the queue, so
\* an empty queue gives no endless exchange of dequeue and dequeue_rejected.
C25_NoDequeueAfterRejected ==
  [][\A k \in Workers : ReadsRejected(k) => ~SendsDequeueNext(k)']_vars

\* ----------------------------------------------------------------- C26
\* worker k stands in the idle-mode branch of its loop
InIdleMode(k) == w_pc[k] = "loop" /\ ~work_mode[k]

\* worker k, in idle-mode, reads a message in this step
IdleRead(k) ==
  /\ InIdleMode(k) /\ WorkerCanRead(k)
  /\ <<q2w[k], w_off[k]>>' # <<q2w[k], w_off[k]>>
  /\ Len(q2w'[k]) <= Len(q2w[k])

\* the tasks handed to worker k that it has evaluated or will still find as
\* a dequeue_accepted in its pipe
TasksHeld(k) ==
  Len(OfWorker(k, evalLog)) + CountTag(q2w[k], Q2W_dequeue_accepted)

\* a worker in idle-mode writes nothing to the queue and evaluates nothing;
\* a dequeue-class message it reads answers its one outstanding dequeue and
\* changes its flag only
IdleQuiet(k) ==
  InIdleMode(k) =>
    /\ Len(w2q'[k]) <= Len(w2q[k])
    /\ OfWorker(k, evalLog') = OfWorker(k, evalLog)
    /\ IdleRead(k) /\ ReadTagAt(k) \in {Q2W_dequeue_accepted, Q2W_dequeue_rejected} =>
         /\ ~dequeue_acknowledged[k] /\ dequeue_acknowledged'[k]
         /\ w_pc'[k] = w_pc[k] /\ work_mode'[k] = work_mode[k]
         /\ w_param'[k] = w_param[k] /\ applied'[k] = applied[k]

\* C26: a worker in idle-mode sends no W2Q::dequeue and evaluates no task;
\* a dequeue-class message it reads there is the answer to the one dequeue
\* that was outstanding when it left work-mode, and reading it has no effect
\* but the acknowledgement: in particular no task goes with it.
C26_IdleStaleAnswer ==
  [][\A k \in Workers :
       /\ IdleQuiet(k)
       /\ IdleRead(k) /\ ReadTagAt(k) \in {Q2W_dequeue_accepted, Q2W_dequeue_rejected} =>
            TasksHeld(k)' = TasksHeld(k)]_vars

\* ----------------------------------------------------------------- C27
\* worker k stands at the first byte of a message, or at the end of its pipe
WorkerInStep(k) ==
  w_off[k] = 0 /\ (q2w[k] # <<>> => Head(q2w[k]).k = "int")

\* the queue process stands at the first byte of a message of worker k, or
\* at the double it awaits from worker k
QueueInStep(k) ==
  w2q[k] # <<>> =>
    \/ Head(w2q[k]).k = "int"
    \/ Head(w2q[k]).k = "dbl" /\ q_pc = "call" /\ q_call = k

\* C27: on every pipe the reader takes each message as it was written, tag
\* and whole payload: no worker stands inside a payload it left unread, the
\* queue process reads no bytes of a W2Q tag as part of another value, and
\* no double that reaches master was made of such bytes.
C27_WholeMessages ==
  /\ \A k \in Workers : WorkerInStep(k) /\ QueueInStep(k)
  /\ \A i \in 1..Len(returned) : returned[i] # Garbled
  /\ \A i \in 1..Len(q2m) : q2m[i] # DblW(Garbled)

\* ----------------------------------------------------------------- C28
\* the i-th call that returned gave the value that the called worker
\* computed for the called job
ReturnedAsComputed(i) ==
  /\ i <= Len(computed)
  /\ computed[i] = <<calls[i][2], calls[i][1], returned[i]>>

\* the queue process forwards a call in this step
ForwardStep == QueueReads(M2Q_call_double_const_method) /\ q_pc' = "call"

\* C28: a call_double_const_method(key, job_id, worker_id) on master
\* returns in the end, with the value that the method of job job_id gave on
\* worker worker_id; the request goes to that worker's pipe only, and the
\* queue process comes back to its loop.
C28_CallReturns ==
  /\ (m_pc = "call") ~> (m_pc = "run")
  /\ (q_pc = "call") ~> (q_pc = "loop")
  /\ [](\A i \in 1..Len(returned) : ReturnedAsComputed(i))
  /\ [][ForwardStep =>
          \A k \in Workers : k # m2q[3].v => q2w'[k] = q2w[k]]_vars

\* ----------------------------------------------------------------- C29
\* master writes an M2Q::enqueue on the queue pipe in this step
EnqueueSent == CountTag(m2q', M2Q_enqueue) > CountTag(m2q, M2Q_enqueue)

\* C29: master sends M2Q::enqueue from an activated manager only: when
\* to_queue finds the manager not activated, it activates it (forking the
\* processes if they are not there) before it writes the message.  activate
\* on a manager that is activated already forks nothing and changes nothing.
C29_ActivatedBeforeEnqueue ==
  /\ [][EnqueueSent =>
          /\ queue_activated' /\ processes_initialized' /\ queue_pipe' = "open"
          /\ q_pc' \in {"forked", "loop"}
          /\ ~queue_activated => child_jobs' = job_objects]_vars
  /\ [][is_activated /\ activate => UNCHANGED vars]_vars

\* the first enqueue of a manager that nobody activated was sent, the queue
\* process has taken it, and activate can be called again
C29_Witness ==
  /\ Len(enqLog) = 1 /\ queue_activated /\ processes_initialized
  /\ q_pc = "loop" /\ N_tasks = 1 /\ queue = <<enqLog[1]>>
  /\ m_pc = "run" /\ instantiated /\ last # "terminate_ok"

\* ----------------------------------------------------------------- C30
\* a worker process has ended with a task that the queue handed to it and
\* that it never evaluated
WorkerDiedHolding ==
  \E k \in Workers :
    /\ w_pc[k] = "failed"
    /\ Len(OfWorker(k, handLog)) > Len(OfWorker(k, evalLog))

\* C30: when a worker process has died holding a dequeued task, a retrieve
\* of master ends with a fatal error; master does not go on for ever sending
\* M2Q::retrieve and reading retrieve_rejected.
C30_RetrieveFailsAfterDeath ==
  (WorkerDiedHolding /\ m_pc = "retrieve") ~> (m_pc = "crashed")

\* ----------------------------------------------------------------- C31
\* every process has left initialize_processes
Constructed ==
  procs # <<>> /\ \A i \in 1..Len(procs) : procs[i].pc \in {"done", "crashed"}

ProcessIsWorker(p) == ~(p.is_master \/ p.is_queue)

\* C31: after the construction with N_workers = N there are exactly N + 2
\* processes, one master, one queue and N workers whose worker_ids are the
\* numbers 0..N-1, each once; no process has two roles; the queue process
\* holds the queue side of the master pipe and of all N worker pipes.
C31_ProcessRoles ==
  Constructed =>
    LET P == 1..Len(procs)
        masters == {i \in P : procs[i].is_master}
        queues == {i \in P : procs[i].is_queue}
        workers == {i \in P : ProcessIsWorker(procs[i])}
    IN /\ Len(procs) = fork_N + 2
       /\ \A i \in P : procs[i].pc = "done"
       /\ Cardinality(masters) = 1 /\ Cardinality(queues) = 1
       /\ masters \cap queues = {}
       /\ Cardinality(workers) = fork_N
       /\ \A k \in 0..(fork_N - 1) :
            Cardinality({i \in workers : procs[i].worker_id = k}) = 1
       /\ \A i \in queues :
            /\ procs[i].queue_pipe = "child"
            /\ procs[i].worker_pipes = 0..(fork_N - 1)

\* ----------------------------------------------------------------- C32
\* the tasks that were taken from the FIFO with dequeue_accepted and whose
\* W2Q::send_result the queue process has not handled
Outstanding == Len(handLog) - Len(recLog)

\* C32: in every state of the queue process N_tasks_completed <= N_tasks, and
\* N_tasks - N_tasks_completed is the length of the FIFO plus the number of
\* tasks that were dequeued and whose result the queue has not received.
C32_TaskCounters ==
  /\ N_tasks_completed <= N_tasks
  /\ N_tasks - N_tasks_completed = Len(queue) + Outstanding

\* of two tasks one is with a worker in work-mode and one waits in the FIFO
C32_Witness ==
  /\ N_tasks = 2 /\ N_tasks_completed = 0
  /\ Len(queue) = 1 /\ Outstanding = 1
  /\ \E k \in Workers : work_mode[k] /\ Len(OfWorker(k, handLog)) = 1

\* ----------------------------------------------------------------- C33
\* C33: each worker has at most one W2Q::dequeue that the queue process has
\* not answered, in work-mode and in idle-mode.
C33_OneDequeueOutstanding ==
  \A k \in Workers : CountTag(w2q[k], W2Q_dequeue) <= 1

\* ----------------------------------------------------------------- C34
\* master reads a retrieve_accepted in this step
AcceptedStep ==
  /\ m_pc = "retrieve" /\ q2m # <<>>
  /\ Head(q2m).v = Q2M_retrieve_accepted
  /\ q2m' # q2m

\* C34: when master reads the job ids that the queue streams on
\* retrieve_accepted, it finds each of them in its registry: the lookup
\* fails for none and leaves the registry as it is, also after a job was
\* removed on master while another job kept the manager alive.
C34_StreamedJobsRegistered ==
  [][AcceptedStep => m_pc' = "run" /\ job_objects' = job_objects]_vars

\* ----------------------------------------------------------------- C35
\* terminate() runs in this step, called on the instance or by ~TaskManager
TerminateCalled ==
  \/ terminate
  \/ \E j \in JobIds : instantiated /\ job_objects = {j} /\ remove_job_object(j)

\* C35: once a call of terminate() has shut the processes down, a further
\* call, explicit or from the destructor, sends nothing, touches no
\* destroyed pipe and fails nowhere: master runs on with its pipes as they
\* were.
C35_TerminateAgain ==
  [][(queue_pipe = "null" /\ q_pc = "exited" /\ TerminateCalled) =>
       m_pc' = "run" /\ UNCHANGED pipes]_vars

\* ----------------------------------------------------------------- C36
\* no switch_work_mode message is on its way to a worker
SwitchesDelivered ==
  /\ CountTag(m2q, M2Q_switch_work_mode) = 0
  /\ \A k \in Workers : CountTag(q2w[k], Q2W_switch_work_mode) = 0

\* the workers of the manager that live: forked, or in their loop
LiveWorkers == {k \in ActiveWorkers : w_pc[k] \in {"forked", "loop"}}

\* C36: once every switch_work_mode message sent so far has been delivered,
\* the mode of every worker is the mode master recorded in set_work_mode,
\* after any sequence of set_work_mode calls and across terminate and a new
\* activation; set_work_mode with the mode master has recorded sends nothing.
C36_ModesAgree ==
  [][/\ (instantiated' /\ m_pc' = "run" /\ SwitchesDelivered') =>
          \A k \in LiveWorkers' : work_mode'[k] = m_work_mode'
     /\ \A flag \in BOOLEAN :
          (flag = m_work_mode /\ set_work_mode(flag)) => UNCHANGED pipes]_vars

\* ----------------------------------------------------------------- C37
\* the cycles of parameter i in the course of the call, in their order
CyclesOf(i) == SelectSeq(g_trace.cyc, LAMBDA c : c.i = i)

\* those of them that ran to the central difference
FullCyclesOf(i) == SelectSeq(g_trace.cyc, LAMBDA c : c.i = i /\ c.brk # "step")

\* the calls of f made in the cycles of parameter i
EvalsOf(i) == SelectSeq(g_trace.evals, LAMBDA e : e.i = i)

\* C37: Differentiate ends for every input; per parameter it runs at most
\* ncycles cycles, each with exactly two calls of f, so that one call of
\* Differentiate calls f at most 1 + 2*N*ncycles times; when neither
\* convergence test fires, the values of the last cycle are returned; with
\* ncycles = 0 the state (grad, g2, gstep) is returned as it was.
C37_CyclesBounded ==
  g_trace # <<>> =>
    /\ \A i \in Params :
         /\ Len(CyclesOf(i)) <= g_st.ncycle
         /\ Len(EvalsOf(i)) = 2 * Len(FullCyclesOf(i))
         /\ (Len(CyclesOf(i)) = g_st.ncycle /\ g_st.ncycle > 0
               /\ \A n \in 1..Len(CyclesOf(i)) : CyclesOf(i)[n].brk = "none")
              => g_serial[i] = CyclesOf(i)[g_st.ncycle].after
    /\ Len(g_trace.evals) <= 1 + 2 * Cardinality(Params) * g_st.ncycle
    /\ g_st.ncycle = 0 =>
         /\ g_serial = Triples(g_st)
         /\ Len(g_trace.evals) = 1

\* both parameters ran all of MaxCycles cycles with no test firing, and the
\* call made 1 + 2*N*ncycles calls of f
C37_Witness ==
  /\ g_trace # <<>> /\ g_st.ncycle = MaxCycles
  /\ \A c \in 1..Len(g_trace.cyc) : g_trace.cyc[c].brk = "none"
  /\ Len(g_trace.evals) = 1 + 2 * Cardinality(Params) * MaxCycles

\* ----------------------------------------------------------------- C38
\* the number of calls of f made when cycle n of the course was over
CallsAfter(n) ==
  IF n < Len(g_trace.cyc) THEN g_trace.cyc[n + 1].nf ELSE Len(g_trace.evals)

\* C38: Differentiate never changes the caller's point: every call of f in
\* the cycles of parameter i is at a point that differs from x in coordinate
\* i only, and after each cycle the working copy is x again; a break on the
\* step-size test comes before any call of f in its cycle and leaves grad_i,
\* g2_i and gstep_i as they were before the cycle.
C38_PointKept ==
  /\ [](g_trace # <<>> =>
          /\ g_trace.x = g_x
          /\ \A n \in 1..Len(g_trace.evals) :
               LET e == g_trace.evals[n]
               IN \A c \in Params : c # e.i => e.at[c] = g_x[c]
          /\ \A n \in 1..Len(g_trace.cyc) :
               LET c == g_trace.cyc[n]
               IN /\ c.x = g_x
                  /\ c.brk = "step" =>
                       /\ CallsAfter(n) = c.nf
                       /\ c.after = c.before
                  /\ c.brk # "step" => CallsAfter(n) = c.nf + 2)
  /\ [][DifferentiateSerial => g_x' = g_x]_vars

\* away from the axes both parameters ran a cycle with its two calls of f,
\* at xtf + step and xtf - step, and the second cycle of the second parameter
\* broke on the step-size test
C38_Witness ==
  /\ g_trace # <<>>
  /\ g_x[1] # 0 /\ g_x[2] # 0
  /\ \A i \in Params : Len(EvalsOf(i)) >= 2 /\ EvalsOf(i)[1].at[i] # g_x[i]
  /\ Len(CyclesOf(2)) = 2 /\ CyclesOf(2)[2].brk = "step"

\* ----------------------------------------------------------------- C39
\* C39: with step_tolerance <= 1 and ncycles >= 1 the step-size test cannot
\* fire in the first cycle of a parameter, as step_old is 0 and the relative
\* change is exactly 1: every call runs at least one central difference per
\* parameter, with its two calls of f, and writes grad_i, g2_i and gstep_i:
\* the triple returned is the one the parameter's last full cycle computed.
C39_FirstCycleRuns ==
  (g_trace # <<>> /\ g_st.tol <= One /\ g_st.ncycle >= 1) =>
    \A i \in Params :
      /\ CyclesOf(i) # <<>>
      /\ CyclesOf(i)[1].brk # "step"
      /\ Len(EvalsOf(i)) >= 2
      /\ g_serial[i] = FullCyclesOf(i)[Len(FullCyclesOf(i))].after
      /\ g_serial[i][3] > 0

\* the step tolerance is 1; both parameters ran their first cycle, which
\* gave them another gstep than they came with, and broke on the step-size
\* test in the second
C39_Witness ==
  /\ g_trace # <<>> /\ g_st.tol = One /\ g_st.ncycle > 1
  /\ \A i \in Params :
       /\ Len(CyclesOf(i)) = 2
       /\ CyclesOf(i)[1].brk = "none" /\ CyclesOf(i)[2].brk = "step"
       /\ g_serial[i][3] # g_st.gstep[i]

TypeOK ==
  /\ m_pc \in {"run", "retrieve", "call", "closing", "crashed"}
  /\ q_pc \in {"none", "forked", "loop", "call", "term", "exited"}
  /\ \A k \in Workers : w_pc[k] \in {"none", "forked", "loop", "ack", "exited", "failed"}
====
